---- MODULE Spec2Model ----
(***************************************************************************)
(* A model of the fixed-layout ISO date/time codec of pds-julian:          *)
(*   julian/formatter.py   format_day, format_sec, format_day_sec          *)
(*   julian/iso_parser.py  day_from_iso, sec_from_iso, day_sec_from_iso    *)
(*                                                                         *)
(* Text is a sequence of one-character strings.  Real numbers are exact    *)
(* fixed-point values: a time of day is an integer count of ticks, Tick    *)
(* ticks to the second, and a fractional day is a pair (whole day, ticks   *)
(* of a day).  The calendar, the leap-second table and the time-of-day     *)
(* conversions are other modules of the package (julian.calendar,          *)
(* julian.leap_seconds, julian.time_of_day, julian.utils) and are modelled *)
(* from their interface.                                                   *)
(***************************************************************************)
EXTENDS Integers, Sequences, FiniteSets, TLC

VARIABLES op, args, result, buffer, back, tables

vars == <<op, args, result, buffer, back, tables>>

(***************************************************************************)
(* Bounds of the model.                                                    *)
(***************************************************************************)
\* the largest number of fractional digits requested of an encoder
MaxDigits == 1
\* the largest number of elements in a batch
MaxLen == 2

RECURSIVE Pow10(_)
Pow10(n) == IF n <= 0 THEN 1 ELSE 10 * Pow10(n - 1)

\* ticks per second (and per day, for fractional days): one decimal more than
\* the finest resolution an encoder is asked for
Tick == Pow10(MaxDigits + 1)

NUL == "NUL"

\* an optional number of digits: Python's None, or an integer
NoDigits == [none |-> TRUE, n |-> 0]
Digits(n) == [none |-> FALSE, n |-> n]

\* no array: the buffer argument left out, or nothing returned
NoArray == [kind |-> "none", shape |-> <<>>, width |-> 0, data |-> <<>>]

\* the element of a one-element set; The({e(x) : x \in {v}}) is e of the
\* value of v
The(S) == CHOOSE x \in S : TRUE

\* F of the value of v
With(v, F(_)) == The({F(x) : x \in {v}})

Min(a, b) == IF a < b THEN a ELSE b
Max(a, b) == IF a > b THEN a ELSE b

(***************************************************************************)
(* Text helpers.                                                           *)
(***************************************************************************)
DigitChar == <<"0", "1", "2", "3", "4", "5", "6", "7", "8", "9">>
IsDigit(c) == \E i \in 1..10 : DigitChar[i] = c
DigitVal(c) == (CHOOSE i \in 1..10 : DigitChar[i] = c) - 1

RECURSIVE Repeat(_, _)
Repeat(c, n) == IF n <= 0 THEN <<>> ELSE <<c>> \o Repeat(c, n - 1)

RECURSIVE Concat(_)
Concat(ss) == IF ss = <<>> THEN <<>> ELSE Head(ss) \o Concat(Tail(ss))

\* s[i .. j) with 0-based offsets, as a Python slice or a dtype field reads it
Slice(s, i, j) == SubSeq(s, i + 1, j)

\* str.find: the 0-based index of the first c at or after 0-based start, else -1
Find(s, c, start) ==
    LET hits == {i \in (start + 1)..Len(s) : s[i] = c}
    IN IF hits = {} THEN -1 ELSE (CHOOSE i \in hits : \A j \in hits : i <= j) - 1

Count(s, c) == Cardinality({i \in 1..Len(s) : s[i] = c})

\* the decimal digits of n >= 0, most significant first
RECURSIVE Decimal(_)
Decimal(n) == IF n < 10 THEN <<DigitChar[n + 1]>>
              ELSE Decimal(n \div 10) \o <<DigitChar[(n % 10) + 1]>>

RECURSIVE DigitsValue(_)
DigitsValue(s) ==
    IF s = <<>> THEN 0
    ELSE With(SubSeq(s, 1, Len(s) - 1), LAMBDA front :
             10 * DigitsValue(front) + DigitVal(s[Len(s)]))

\* Python's '%0wd' / '{:0wd}': sign, then digits zero-padded to a total width of w
ZeroPad(n, w) ==
    LET mag == IF n < 0 THEN -n ELSE n
        digs == Decimal(mag)
        sign == IF n < 0 THEN <<"-">> ELSE <<>>
    IN sign \o Repeat("0", w - Len(digs) - Len(sign)) \o digs

(***************************************************************************)
(* Digit lookup tables (formatter.py 13-20) and NumPy's indexing of them:  *)
(* an index in -n..-1 counts from the end, any other index outside 0..n-1  *)
(* raises IndexError.                                                      *)
(***************************************************************************)
DIGITS1 == [i \in 0..9 |-> ZeroPad(i, 1)]
DIGITS2 == [i \in 0..99 |-> ZeroPad(i, 2)]
DIGITS3 == [i \in 0..366 |-> ZeroPad(i, 3)]

\* the module's tables as they are once the module is loaded; the byte forms
\* BDIGITS1/2/3 hold the same characters
LoadedTables == [DIGITS1 |-> DIGITS1, DIGITS2 |-> DIGITS2, DIGITS3 |-> DIGITS3]

IndexOK(i, n) == i >= -n /\ i < n
Gather(table, n, i) == table[IF i < 0 THEN i + n ELSE i]

(***************************************************************************)
(* The calendar adapter (julian.calendar), modelled from its interface:    *)
(* day numbers count from 2000-01-01; the Gregorian calendar applies from  *)
(* 1582-10-15, the Julian calendar before it unless proleptic is set.      *)
(***************************************************************************)
\* day number of 1582-10-15
GregorianStart == -152384

\* Gregorian (y, m, d) -> day number
GregorianDay(y, m, d) ==
    LET yy == IF m <= 2 THEN y - 1 ELSE y
        era == yy \div 400
        yoe == yy - era * 400
        mp == IF m > 2 THEN m - 3 ELSE m + 9
        doy == (153 * mp + 2) \div 5 + d - 1
        doe == yoe * 365 + yoe \div 4 - yoe \div 100 + doy
    IN era * 146097 + doe - 730425

\* Julian-calendar (y, m, d) -> day number
JulianDay(y, m, d) ==
    LET yy == IF m <= 2 THEN y - 1 ELSE y
        era == yy \div 4
        yoe == yy - era * 4
        mp == IF m > 2 THEN m - 3 ELSE m + 9
        doy == (153 * mp + 2) \div 5 + d - 1
    IN era * 1461 + yoe * 365 + doy - 730427

\* day number -> Gregorian <<y, m, d>>
GregorianYMD(day) ==
    LET z == day + 730425
        era == z \div 146097
        doe == z - era * 146097
        yoe == (doe - doe \div 1460 + doe \div 36524 - doe \div 146096) \div 365
        doy == doe - (365 * yoe + yoe \div 4 - yoe \div 100)
        mp == (5 * doy + 2) \div 153
        d == doy - (153 * mp + 2) \div 5 + 1
        m == IF mp < 10 THEN mp + 3 ELSE mp - 9
    IN <<(yoe + era * 400) + (IF m <= 2 THEN 1 ELSE 0), m, d>>

\* day number -> Julian-calendar <<y, m, d>>
JulianYMD(day) ==
    LET z == day + 730427
        era == z \div 1461
        doe == z - era * 1461
        yoe == Min(doe \div 365, 3)
        doy == doe - 365 * yoe
        mp == (5 * doy + 2) \div 153
        d == doy - (153 * mp + 2) \div 5 + 1
        m == IF mp < 10 THEN mp + 3 ELSE mp - 9
    IN <<(yoe + era * 4) + (IF m <= 2 THEN 1 ELSE 0), m, d>>

ymd_from_day(day, proleptic) ==
    IF proleptic \/ day >= GregorianStart THEN GregorianYMD(day) ELSE JulianYMD(day)

\* the day number the calendar gives (y, m, d), without any range check
RawDay(y, m, d, proleptic) ==
    LET g == GregorianDay(y, m, d)
    IN IF proleptic \/ g >= GregorianStart THEN g ELSE JulianDay(y, m, d)

\* a date the calendar has: converting its day number back gives (y, m, d)
ValidYMD(y, m, d, proleptic) ==
    /\ m \in 1..12
    /\ d \in 1..31
    /\ ymd_from_day(RawDay(y, m, d, proleptic), proleptic) = <<y, m, d>>

\* day_from_ymd: [err, day]; validate rejects a month or day out of range
day_from_ymd(y, m, d, validate, proleptic) ==
    IF validate /\ ~ValidYMD(y, m, d, proleptic)
    THEN [err |-> "InvalidCalendarValue", day |-> 0]
    ELSE [err |-> "none", day |-> RawDay(y, IF m \in 1..12 THEN m ELSE 1, d, proleptic)]

yd_from_day(day, proleptic) ==
    LET y == ymd_from_day(day, proleptic)[1]
    IN <<y, day - RawDay(y, 1, 1, proleptic) + 1>>

day_from_yd(y, d, validate, proleptic) ==
    LET day == RawDay(y, 1, 1, proleptic) + d - 1
    IN IF validate /\ (d < 1 \/ yd_from_day(day, proleptic) # <<y, d>>)
       THEN [err |-> "InvalidCalendarValue", day |-> 0]
       ELSE [err |-> "none", day |-> day]

(***************************************************************************)
(* The leap-second table (julian.leap_seconds) and the time-of-day         *)
(* conversions (julian.time_of_day), modelled from their interface.        *)
(***************************************************************************)
\* days that end in an inserted leap second: 1998-12-31 and 2005-12-31
LeapSecondDays == {-366, 2191}

seconds_on_day(day) == IF day \in LeapSecondDays THEN 86401 ELSE 86400

\* hms_from_sec on a time in ticks: <<h, m, s in ticks>>; a leap second stays
\* in the minute 23:59
hms_from_sec(sec) ==
    LET h == Min(sec \div (3600 * Tick), 23)
        t == sec - h * 3600 * Tick
        m == Min(t \div (60 * Tick), 59)
    IN <<h, m, t - m * 60 * Tick>>

\* sec_from_hms on numerators over a common denominator den: [err, num];
\* validate rejects fields out of range, a 61st second only at 23:59 and
\* only when leapsecs is set
sec_from_hms(h, m, s, den, validate, leapsecs) ==
    LET hh == h \div den
        mm == m \div den
        smax == IF leapsecs /\ hh = 23 /\ mm = 59 THEN 61 ELSE 60
        ok == /\ h >= 0 /\ h < 24 * den
              /\ m >= 0 /\ m < 60 * den
              /\ s >= 0 /\ s < smax * den
    IN IF validate /\ ~ok
       THEN [err |-> "InvalidTimeValue", num |-> 0]
       ELSE [err |-> "none", num |-> 3600 * h + 60 * m + s]

(***************************************************************************)
(* julian.utils._int rounds downward; in fixed point it is a floor.        *)
(***************************************************************************)
Floor(t, unit) == t \div unit


(***************************************************************************)
(* Arrays.  A numeric or text array is [shape, data]: shape is <<>> for a  *)
(* scalar and <<n>> or <<r, n>> for a batch, data the elements in          *)
(* row-major order.  A text array also has kind ("U" text, "S" bytes) and  *)
(* width, the characters per record (dtype.itemsize // w); a record        *)
(* shorter than width ends in NUL.                                         *)
(***************************************************************************)
RECURSIVE Product(_)
Product(shape) == IF shape = <<>> THEN 1 ELSE Head(shape) * Product(Tail(shape))

Leading(shape) == SubSeq(shape, 1, Len(shape) - 1)
Last(shape) == shape[Len(shape)]

\* the element an operation on a batch of `shape` reads for position j of the
\* (broadcast) result
Elem(a, j) == IF a.shape = <<>> THEN a.data[1] ELSE a.data[j]

\* view[..., :shape[-1]]: the flat positions of a buffer that a batch of
\* `shape` is written to; a scalar is broadcast to every element
Targets(bshape, shape) ==
    IF shape = <<>> THEN 1..Product(bshape)
    ELSE {j \in 1..Product(bshape) : ((j - 1) % Last(bshape)) < Last(shape)}

\* the input element written to flat position j of the buffer
SourceOf(bshape, shape, j) ==
    IF shape = <<>> THEN 1
    ELSE ((j - 1) \div Last(bshape)) * Last(shape) + ((j - 1) % Last(bshape)) + 1

\* view[name] = text on one record: the field is the characters [off, off+len);
\* a shorter text is NUL-padded, a longer one cut
PutField(rec, off, len, text) ==
    [i \in 1..Len(rec) |->
        IF i > off /\ i <= off + len
        THEN (IF i - off <= Len(text) THEN text[i - off] ELSE NUL)
        ELSE rec[i]]

\* the text NumPy hands back for a record: trailing NULs do not count
RStrip(s, c) ==
    With(s, LAMBDA t :
        SubSeq(t, 1, Max(0, CHOOSE k \in 0..Len(t) :
                               /\ k = 0 \/ t[k] # c
                               /\ \A i \in (k + 1)..Len(t) : t[i] = c)))

(***************************************************************************)
(* Round-with-bias, ((x * scale + 0.5) // 1 + 0.1) / scale (formatter.py   *)
(* 66, 258, 464), on ticks: unit is the ticks per resolution step,         *)
(* Tick / scale.  The result is n steps plus the bias of a tenth of one.   *)
(***************************************************************************)
RoundSteps(t, unit) == (t + unit \div 2) \div unit
Bias(unit) == unit \div 10
RoundBias(t, unit) == RoundSteps(t, unit) * unit + Bias(unit)

\* the iterative digit extraction of the batch paths (formatter.py 212-217,
\* 377-382): frac is num/den; multiply by 10, floor, subtract, count times
RECURSIVE FracDigits(_, _, _)
FracDigits(num, den, count) ==
    IF count <= 0 THEN <<>>
    ELSE With((num * 10) \div den, LAMBDA f :
             <<f>> \o FracDigits(num * 10 - f * den, den, count - 1))

(***************************************************************************)
(* format_day (formatter.py 26-219).                                       *)
(***************************************************************************)
DateOrders == {<<"Y", "M", "D">>, <<"M", "D", "Y">>, <<"D", "M", "Y">>,
               <<"Y", "D">>, <<"D", "Y">>}

Field(name, n, off, len) == [name |-> name, n |-> n, off |-> off, len |-> len]

\* the fields with the year always of four digits
DayFieldsOfFourDigits(c, l0, nfields, ydigits, has_dot, ddigits) ==
    IF c = "Y"
    THEN <<Field("y12", 0, l0, 2), Field("y34", 0, l0 + 2, 2)>>
    ELSE IF c = "M" THEN <<Field("m", 0, l0, 2)>>
    ELSE LET dlen == IF nfields = 2 THEN 3 ELSE 2
         IN <<Field("d", 0, l0, dlen)>>
            \o (IF has_dot THEN <<Field("dot", 0, l0 + dlen, 1)>> ELSE <<>>)
            \o (IF has_dot /\ ddigits > 0
                THEN [i \in 1..ddigits |-> Field("f", i - 1, l0 + dlen + i, 1)]
                ELSE <<>>)

\* the fields one character of `order` adds at offset l0 (formatter.py 121-151)
DayFieldsOf(c, l0, nfields, ydigits, has_dot, ddigits) ==
    IF c = "Y"
    THEN (IF ydigits = 4 THEN <<Field("y12", 0, l0, 2), Field("y34", 0, l0 + 2, 2)>>
          ELSE <<Field("y34", 0, l0, 2)>>)
    ELSE IF c = "M" THEN <<Field("m", 0, l0, 2)>>
    ELSE LET dlen == IF nfields = 2 THEN 3 ELSE 2
         IN <<Field("d", 0, l0, dlen)>>
            \o (IF has_dot THEN <<Field("dot", 0, l0 + dlen, 1)>> ELSE <<>>)
            \o (IF has_dot /\ ddigits > 0
                THEN [i \in 1..ddigits |-> Field("f", i - 1, l0 + dlen + i, 1)]
                ELSE <<>>)

\* the running width advanced to the start of the last field, not past it
FieldsEndAtLastField(fields, l0) ==
    IF fields = <<>> THEN l0 ELSE fields[Len(fields)].off

\* lstring after the fields added at l0 (formatter.py 119-151)

FieldsEnd(fields, l0) ==
    IF fields = <<>> THEN l0 ELSE fields[Len(fields)].off + fields[Len(fields)].len

\* dtype_dict of format_day, in insertion order, from field k of `order` on
RECURSIVE DayDtype(_, _, _, _, _, _, _)
DayDtype(order, k, lstring, ydigits, ldash, has_dot, ddigits) ==
    IF k > Len(order) THEN <<>>
    ELSE LET dashes == IF k > 1 /\ ldash > 0
                       THEN <<Field("dash", k - 1, lstring, ldash)>> ELSE <<>>
             l0 == FieldsEnd(dashes, lstring)
             own == DayFieldsOf(order[k], l0, Len(order), ydigits, has_dot, ddigits)
         IN With(dashes \o own, LAMBDA here :
                here \o DayDtype(order, k + 1, FieldsEnd(here, lstring), ydigits,
                                 ldash, has_dot, ddigits))

\* the split with the whole day taken from the value before it is rounded
DaySplitUnrounded(v, has_dot, unit) ==
    IF has_dot
    THEN LET t == RoundBias(v.f, unit)
         IN [day |-> v.i, num |-> t - Floor(t, Tick) * Tick]
    ELSE [day |-> v.i, num |-> 0]

\* the split of one day value (formatter.py 63-73): [day, k]; with a decimal
\* point the value is rounded with bias and k is the fraction in steps
DaySplit(v, has_dot, unit) ==
    IF has_dot
    THEN LET t == RoundBias(v.f, unit)
         IN [day |-> v.i + Floor(t, Tick), num |-> t - Floor(t, Tick) * Tick]
    ELSE [day |-> v.i, num |-> 0]

\* the calendar fields of one day, always of the Gregorian calendar
DayYMDGregorian(day, nfields, proleptic) ==
    IF nfields = 3
    THEN LET c == GregorianYMD(day) IN [y |-> c[1], m |-> c[2], d |-> c[3]]
    ELSE LET c == yd_from_day(day, TRUE) IN [y |-> c[1], m |-> 0, d |-> c[2]]

\* the calendar fields of one day: [y, m, d]
DayYMD(day, nfields, proleptic) ==
    IF nfields = 3
    THEN LET c == ymd_from_day(day, proleptic) IN [y |-> c[1], m |-> c[2], d |-> c[3]]
    ELSE LET c == yd_from_day(day, proleptic) IN [y |-> c[1], m |-> 0, d |-> c[2]]

\* the string-formatting path for a scalar without a buffer (formatter.py 163-176)
RECURSIVE DayString(_, _, _, _, _, _, _, _)
DayString(order, k, c, f, ydigits, dash, has_dot, ddigits) ==
    IF k > Len(order) THEN <<>>
    ELSE LET sepr == IF k > 1 /\ Len(dash) > 0 THEN dash ELSE <<>>
             own == IF order[k] = "Y"
                    THEN ZeroPad(IF ydigits = 2 THEN c.y % 100 ELSE c.y, ydigits)
                    ELSE IF order[k] = "M" THEN ZeroPad(c.m, 2)
                    ELSE ZeroPad(c.d, IF Len(order) = 2 THEN 3 ELSE 2)
                         \o (IF has_dot THEN <<".">> ELSE <<>>)
                         \o (IF has_dot /\ ddigits > 0 THEN ZeroPad(f, ddigits) ELSE <<>>)
         IN sepr \o own \o DayString(order, k + 1, c, f, ydigits, dash, has_dot, ddigits)

\* the text the table-gather path writes to one field (formatter.py 194-217)
DayFieldText(fld, c, digs, dash) ==
    CASE fld.name = "y12" -> Gather(tables.DIGITS2, 100, c.y \div 100)
      [] fld.name = "y34" -> Gather(tables.DIGITS2, 100, c.y % 100)
      [] fld.name = "m" -> Gather(tables.DIGITS2, 100, c.m)
      [] fld.name = "d" -> IF fld.len = 2 THEN Gather(tables.DIGITS2, 100, c.d)
                           ELSE Gather(tables.DIGITS3, 367, c.d)
      [] fld.name = "dash" -> dash
      [] fld.name = "dot" -> <<".">>
      [] fld.name = "f" -> Gather(tables.DIGITS1, 10, digs[fld.n + 1])
      [] OTHER -> <<>>

RECURSIVE DayRecord(_, _, _, _, _, _)
DayRecord(rec, fields, k, c, digs, dash) ==
    IF k > Len(fields) THEN rec
    ELSE With(PutField(rec, fields[k].off, fields[k].len,
                       DayFieldText(fields[k], c, digs, dash)),
              LAMBDA written : DayRecord(written, fields, k + 1, c, digs, dash))


\* the outcome of an encoder call: the error raised ("none" if none), the
\* caller's buffer as the call leaves it, and the object returned
Raise(e, buf) == [err |-> e, buf |-> buf, ret |-> NoArray]
Return(buf, ret) == [err |-> "none", buf |-> buf, ret |-> ret]

TextArray(kind, shape, width, data) ==
    [kind |-> kind, shape |-> shape, width |-> width, data |-> data]

\* the kind validated whether or not a buffer is supplied
KindCheckAlways(buf, kind) ==
    IF kind \notin {"U", "S"} THEN "ValueError: invalid kind" ELSE "none"

\* the validation of `kind` (formatter.py 78-80, 268-270, 437-439): only
\* without a buffer; the error raised, "none" if it passes
KindCheck(buf, kind) ==
    IF buf = NoArray /\ kind \notin {"U", "S"} THEN "ValueError: invalid kind" ELSE "none"

\* the checks of a buffer with its kind left unchecked
BufferCheckAnyKind(buf, shape) ==
    IF shape # <<>> /\ Leading(shape) # Leading(buf.shape)
    THEN "ValueError: buffer shape does not match"
    ELSE IF shape # <<>> /\ Last(buf.shape) < Last(shape)
    THEN "ValueError: buffer shape is too small"
    ELSE "none"

\* the checks of a caller's buffer against the input's shape (formatter.py
\* 83-91, 273-281, 442-450): the error raised, "none" if it passes
BufferCheck(buf, shape) ==
    IF buf.kind \notin {"U", "S"} THEN "ValueError: invalid buffer kind"
    ELSE IF shape # <<>> /\ Leading(shape) # Leading(buf.shape)
    THEN "ValueError: buffer shape does not match"
    ELSE IF shape # <<>> /\ Last(buf.shape) < Last(shape)
    THEN "ValueError: buffer shape is too small"
    ELSE "none"

\* buffer.fill(null)
Filled(buf) == [buf EXCEPT !.data = [j \in 1..Len(buf.data) |-> Repeat(NUL, buf.width)]]

\* the size check failing as it does with the buffer zeroed first
TooSmallAfterFill(buf) ==
    Raise("ValueError: buffer itemsize is too small", Filled(buf))

\* the record-width check failing (formatter.py 182-186, 351-355, 520-527)
TooSmall(buf) == Raise("ValueError: buffer itemsize is too small", buf)

\* a fresh array of `shape` (np.empty) or the caller's buffer, after
\* buffer.fill(null) (formatter.py 178-189, 347-358)
Destination(buf, kind, shape, lstring) ==
    IF buf = NoArray
    THEN TextArray(kind, shape, lstring, [j \in 1..Product(shape) |-> Repeat(NUL, lstring)])
    ELSE Filled(buf)

format_day(day, order, ydigits, dash, ddigits, proleptic, buf, kind) ==
    LET has_dot == day.isfloat /\ ~ddigits.none /\ ddigits.n >= 0
        unit == Tick \div Pow10(ddigits.n)
        shape == day.shape
        kind_ == IF buf = NoArray THEN kind ELSE buf.kind
    IN IF order \notin DateOrders
       THEN Raise("ValueError: unrecognized date format order", buf)
       ELSE IF ydigits \notin {2, 4}
       THEN Raise("ValueError: ydigits must equal 2 or 4", buf)
       ELSE IF KindCheck(buf, kind) # "none"
       THEN Raise(KindCheck(buf, kind), buf)
       ELSE IF buf # NoArray /\ BufferCheck(buf, shape) # "none"
       THEN Raise(BufferCheck(buf, shape), buf)
       ELSE
       With([j \in 1..Len(day.data) |-> DaySplit(day.data[j], has_dot, unit)], LAMBDA split :
       With([j \in 1..Len(split) |-> DayYMD(split[j].day, Len(order), proleptic)], LAMBDA ymd :
       With(DayDtype(order, 1, 0, ydigits, Len(dash), has_dot, ddigits.n), LAMBDA dtype :
       With(FieldsEnd(dtype, 0), LAMBDA lstring :
         IF shape = <<>> /\ buf = NoArray
         THEN With(DayString(order, 1, ymd[1],
                             IF has_dot THEN split[1].num \div unit ELSE 0,
                             ydigits, dash, has_dot, ddigits.n),
                   LAMBDA text : Return(buf, TextArray(kind_, <<>>, Len(text), <<text>>)))
         ELSE IF buf # NoArray /\ lstring > buf.width
         THEN TooSmall(buf)
         ELSE
         With(Destination(buf, kind_, shape, lstring), LAMBDA dest :
           IF ydigits = 4 /\ \E j \in 1..Len(ymd) : ~IndexOK(ymd[j].y \div 100, 100)
           THEN Raise("IndexError", IF buf = NoArray THEN buf ELSE dest)
           ELSE
           With([dest EXCEPT !.data =
                   [j \in 1..Len(dest.data) |->
                      IF j \in Targets(dest.shape, shape)
                      THEN With(SourceOf(dest.shape, shape, j), LAMBDA e :
                             DayRecord(dest.data[j], dtype, 1, ymd[e],
                                       IF has_dot
                                       THEN FracDigits(split[e].num, Tick, ddigits.n)
                                       ELSE <<>>,
                                       dash))
                      ELSE dest.data[j]]],
                LAMBDA written : Return(IF buf = NoArray THEN buf ELSE written, written)))))))


(***************************************************************************)
(* format_sec (formatter.py 225-384).  A time is an integer count of ticks.*)
(***************************************************************************)
\* dtype_dict of format_sec with the minute field placed as if colon were empty
SecDtypeMinuteAt2(lcolon, has_dot, digits, lsuffix) ==
    LET base == 6 + 2 * lcolon
        ldot == IF has_dot THEN 1 + Max(digits, 0) ELSE 0
    IN <<Field("h", 0, 0, 2), Field("m", 0, 2, 2), Field("s", 0, 4 + 2 * lcolon, 2)>>
       \o (IF lcolon > 0
           THEN <<Field("colon", 1, 2, lcolon), Field("colon", 2, 4 + lcolon, lcolon)>>
           ELSE <<>>)
       \o (IF has_dot THEN <<Field("dot", 0, base, 1)>> ELSE <<>>)
       \o (IF has_dot /\ digits > 0
           THEN [i \in 1..digits |-> Field("f", i - 1, base + i, 1)] ELSE <<>>)
       \o (IF lsuffix > 0 THEN <<Field("z", 0, base + ldot, lsuffix)>> ELSE <<>>)

\* dtype_dict of format_sec, in insertion order (formatter.py 299-330)
SecDtype(lcolon, has_dot, digits, lsuffix) ==
    LET base == 6 + 2 * lcolon
        ldot == IF has_dot THEN 1 + Max(digits, 0) ELSE 0
    IN <<Field("h", 0, 0, 2), Field("m", 0, 2 + lcolon, 2),
         Field("s", 0, 4 + 2 * lcolon, 2)>>
       \o (IF lcolon > 0
           THEN <<Field("colon", 1, 2, lcolon), Field("colon", 2, 4 + lcolon, lcolon)>>
           ELSE <<>>)
       \o (IF has_dot THEN <<Field("dot", 0, base, 1)>> ELSE <<>>)
       \o (IF has_dot /\ digits > 0
           THEN [i \in 1..digits |-> Field("f", i - 1, base + i, 1)] ELSE <<>>)
       \o (IF lsuffix > 0 THEN <<Field("z", 0, base + ldot, lsuffix)>> ELSE <<>>)

SecLString(lcolon, has_dot, digits, lsuffix) ==
    6 + 2 * lcolon + (IF has_dot THEN 1 + Max(digits, 0) ELSE 0) + lsuffix

\* the split of one time value (formatter.py 251-265): h, m and s come from
\* hms_from_sec of the value as passed; with a decimal point the fraction
\* num (in ticks) comes from the value rounded with bias
SecSplit(t, has_dot, unit) ==
    LET hms == hms_from_sec(t)
        r == RoundBias(t, unit)
    IN [h |-> hms[1], m |-> hms[2], s |-> Floor(hms[3], Tick),
        num |-> IF has_dot THEN r - Floor(r, Tick) * Tick ELSE 0]

\* Python's fmt % vals for the formats format_sec builds: "%%" is a "%", "%"
\* with a flag, a width and "d" renders the next value, any other character
\* after "%" is unsupported (no conversion but d is among the inputs), and
\* the values must all be used: [err, text]
Formatted(text) == [err |-> "none", text |-> text]
Unformatted(e) == [err |-> e, text |-> <<>>]
Emit(t, r) == IF r.err # "none" THEN r ELSE Formatted(t \o r.text)

LeadingDigits(t) ==
    CHOOSE n \in 0..Len(t) :
        /\ \A i \in 1..n : IsDigit(t[i])
        /\ n < Len(t) => ~IsDigit(t[n + 1])

RECURSIVE PercentFormat(_, _)
PercentFormat(fmt, vals) ==
    IF fmt = <<>>
    THEN (IF vals = <<>> THEN Formatted(<<>>)
          ELSE Unformatted("TypeError: not all arguments converted during string formatting"))
    ELSE IF Head(fmt) # "%"
    THEN Emit(<<Head(fmt)>>, PercentFormat(Tail(fmt), vals))
    ELSE IF Len(fmt) = 1
    THEN Unformatted("ValueError: incomplete format")
    ELSE IF fmt[2] = "%"
    THEN Emit(<<"%">>, PercentFormat(SubSeq(fmt, 3, Len(fmt)), vals))
    ELSE LET spec == Tail(fmt)
             nd == LeadingDigits(spec)
         IN IF nd = Len(spec)
            THEN Unformatted("ValueError: incomplete format")
            ELSE IF spec[nd + 1] # "d"
            THEN Unformatted("ValueError: unsupported format character")
            ELSE IF vals = <<>>
            THEN Unformatted("TypeError: not enough arguments for format string")
            ELSE Emit(ZeroPad(Head(vals), DigitsValue(SubSeq(spec, 1, nd))),
                      PercentFormat(SubSeq(spec, nd + 2, Len(spec)), Tail(vals)))

\* the string-formatting path for a scalar without a buffer (formatter.py
\* 309-328, 333-339): fmt, with colon and suffix spliced in as they are, and
\* the values it is applied to
SecString(v, colon, has_dot, digits, unit, suffix) ==
    LET two == <<"%", "0", "2", "d">>
        fmt == two \o colon \o two \o colon \o two
               \o (IF has_dot THEN <<".">> ELSE <<>>)
               \o (IF has_dot /\ digits > 0 THEN <<"%", "0">> \o Decimal(digits) \o <<"d">>
                   ELSE <<>>)
               \o suffix
        vals == <<v.h, v.m, v.s>>
                \o (IF has_dot /\ digits > 0 THEN <<v.num \div unit>> ELSE <<>>)
    IN PercentFormat(fmt, vals)

\* the text the table-gather path writes to one field (formatter.py 363-382)
SecFieldText(fld, v, digs, colon, suffix) ==
    CASE fld.name = "h" -> Gather(tables.DIGITS2, 100, v.h)
      [] fld.name = "m" -> Gather(tables.DIGITS2, 100, v.m)
      [] fld.name = "s" -> Gather(tables.DIGITS2, 100, v.s)
      [] fld.name = "colon" -> colon
      [] fld.name = "dot" -> <<".">>
      [] fld.name = "z" -> suffix
      [] fld.name = "f" -> Gather(tables.DIGITS1, 10, digs[fld.n + 1])
      [] OTHER -> <<>>

RECURSIVE SecRecord(_, _, _, _, _, _, _)
SecRecord(rec, fields, k, v, digs, colon, suffix) ==
    IF k > Len(fields) THEN rec
    ELSE With(PutField(rec, fields[k].off, fields[k].len,
                       SecFieldText(fields[k], v, digs, colon, suffix)),
              LAMBDA written : SecRecord(written, fields, k + 1, v, digs, colon, suffix))

format_sec(sec, digits, colon, suffix, buf, kind) ==
    LET has_dot == ~digits.none /\ digits.n >= 0
        unit == IF has_dot THEN Tick \div Pow10(digits.n) ELSE Tick
        shape == sec.shape
        kind_ == IF buf = NoArray THEN kind ELSE buf.kind
        lstring == SecLString(Len(colon), has_dot, digits.n, Len(suffix))
    IN IF KindCheck(buf, kind) # "none"
       THEN Raise(KindCheck(buf, kind), buf)
       ELSE IF buf # NoArray /\ BufferCheck(buf, shape) # "none"
       THEN Raise(BufferCheck(buf, shape), buf)
       ELSE
       With([j \in 1..Len(sec.data) |-> SecSplit(sec.data[j], has_dot, unit)], LAMBDA split :
         IF shape = <<>> /\ buf = NoArray
         THEN With(SecString(split[1], colon, has_dot, digits.n, unit, suffix),
                   LAMBDA str :
                     IF str.err # "none" THEN Raise(str.err, buf)
                     ELSE Return(buf, TextArray(kind_, <<>>, Len(str.text), <<str.text>>)))
         ELSE IF buf # NoArray /\ lstring > buf.width
         THEN TooSmall(buf)
         ELSE
         With(SecDtype(Len(colon), has_dot, digits.n, Len(suffix)), LAMBDA dtype :
         With(Destination(buf, kind_, shape, lstring), LAMBDA dest :
         With([dest EXCEPT !.data =
                 [j \in 1..Len(dest.data) |->
                    IF j \in Targets(dest.shape, shape)
                    THEN With(SourceOf(dest.shape, shape, j), LAMBDA e :
                           SecRecord(dest.data[j], dtype, 1, split[e],
                                     IF has_dot
                                     THEN FracDigits(split[e].num, Tick, digits.n)
                                     ELSE <<>>,
                                     colon, suffix))
                    ELSE dest.data[j]]],
              LAMBDA written : Return(IF buf = NoArray THEN buf ELSE written, written)))))


(***************************************************************************)
(* format_day_sec (formatter.py 390-541).                                  *)
(***************************************************************************)
\* order.replace('T', '')
RECURSIVE WithoutT(_)
WithoutT(order) ==
    IF order = <<>> THEN <<>>
    ELSE (IF Head(order) = "T" THEN <<>> ELSE <<Head(order)>>) \o WithoutT(Tail(order))

\* np.broadcast_arrays of a day array and a time array
BroadcastShape(a, b) == IF a.shape = <<>> THEN b.shape ELSE a.shape
Broadcast(a, shape) ==
    [shape |-> shape, data |-> [j \in 1..Product(shape) |-> Elem(a, j)]]

\* the adjustment made before the rounding: the comparison sees the seconds as
\* passed, the renderer the rounded ones
RolloverUnrounded(day, sec, unit) ==
    LET r == RoundBias(sec, unit)
        secs_on_day == seconds_on_day(day) * Tick
    IN IF sec >= secs_on_day THEN [day |-> day + 1, sec |-> r - secs_on_day]
       ELSE [day |-> day, sec |-> r]

\* the leap-second and rollover adjustment of one element (formatter.py
\* 461-476): the seconds are rounded with bias at the resolution of digits_;
\* at or past the end of the day they move to the next day
Rollover(day, sec, unit) ==
    LET r == RoundBias(sec, unit)
        secs_on_day == seconds_on_day(day) * Tick
    IN IF r >= secs_on_day THEN [day |-> day + 1, sec |-> r - secs_on_day]
       ELSE [day |-> day, sec |-> r]

\* the adjustment applied to a scalar only: a batch is rounded and no more
CrossoversScalarOnly(day, sec, shape, unit) ==
    IF shape # <<>>
    THEN [j \in 1..Product(shape) |->
            [day |-> day.data[j], sec |-> RoundBias(sec.data[j], unit)]]
    ELSE <<Rollover(day.data[1], sec.data[1], unit)>>

\* the adjusted (day, sec) of every element: masked assignment for a batch
\* (469-473), the scalar branch otherwise (474-476)
Crossovers(day, sec, shape, unit) ==
    IF shape # <<>>
    THEN [j \in 1..Product(shape) |-> Rollover(day.data[j], sec.data[j], unit)]
    ELSE <<Rollover(day.data[1], sec.data[1], unit)>>

\* the k-th position, in increasing order, of a set of flat positions
Nth(T, k) == CHOOSE j \in T : Cardinality({i \in T : i < j}) = k - 1

\* view[name] of the sliced view: the characters [off, off+len) of the records
\* a batch of `shape` is written to, as an array of their own
SubView(dest, shape, off, len) ==
    LET T == Targets(dest.shape, shape)
    IN TextArray(dest.kind, IF shape = <<>> THEN dest.shape ELSE shape, len,
                 [k \in 1..Cardinality(T) |-> Slice(dest.data[Nth(T, k)], off, off + len)])

\* the buffer after a write through view[name] left the field as `sub`
MergeView(dest, shape, off, len, sub) ==
    LET T == Targets(dest.shape, shape)
    IN [dest EXCEPT !.data =
          [j \in 1..Len(dest.data) |->
             IF j \in T
             THEN PutField(dest.data[j], off, len,
                           sub.data[Cardinality({i \in T : i <= j})])
             ELSE dest.data[j]]]

DayArray(shape, days) ==
    [shape |-> shape, data |-> [j \in 1..Len(days) |-> [i |-> days[j], f |-> 0]],
     isfloat |-> FALSE]

\* the offsets with the date always placed first
SubRecordOffsetsDateFirst(time_first, ldate, lsep, ltime) ==
    [date |-> 0, sep |-> ldate, time |-> ldate + lsep]

\* dtype_dict of format_day_sec (formatter.py 506-517): the offsets, in
\* characters, of the date, the separator and the time within a record
SubRecordOffsets(time_first, ldate, lsep, ltime) ==
    IF time_first
    THEN [date |-> ltime + lsep, sep |-> ltime, time |-> 0]
    ELSE [date |-> 0, sep |-> ldate, time |-> ldate + lsep]

\* the outcome of format_day_sec: as for the other encoders, with the day and
\* seconds arrays it hands to the date and time renderers
DaySecOutcome(r, adj) ==
    [err |-> r.err, buf |-> r.buf, ret |-> r.ret,
     day |-> [j \in 1..Len(adj) |-> adj[j].day],
     sec |-> [j \in 1..Len(adj) |-> adj[j].sec]]

format_day_sec(day, sec, order, ydigits, dash, sep, colon, digits, suffix, proleptic, buf, kind) ==
    LET ymd_order == WithoutT(order)
        shape == BroadcastShape(day, sec)
        kind_ == IF buf = NoArray THEN kind ELSE buf.kind
        digits_ == IF digits.none THEN 0 ELSE Max(digits.n, 0)
        unit == Tick \div Pow10(digits_)
        time_first == order[1] = "T"
        lsep == Len(sep)
        kept(b) == IF buf = NoArray THEN buf ELSE b
    IN IF order[1] # "T" /\ order[Len(order)] # "T"
       THEN DaySecOutcome(Raise("ValueError: T missing from order specification", buf), <<>>)
       ELSE IF KindCheck(buf, kind) # "none"
       THEN DaySecOutcome(Raise(KindCheck(buf, kind), buf), <<>>)
       ELSE IF buf # NoArray /\ BufferCheck(buf, shape) # "none"
       THEN DaySecOutcome(Raise(BufferCheck(buf, shape), buf), <<>>)
       ELSE
       With(Crossovers(Broadcast(day, shape), Broadcast(sec, shape), shape, unit),
            LAMBDA adj :
       With(format_day(DayArray(<<>>, <<adj[1].day>>), ymd_order, ydigits, dash, NoDigits,
                       proleptic, NoArray, "U"),
            LAMBDA day_formatted :
       With(format_sec([shape |-> <<>>, data |-> <<adj[1].sec>>], digits, colon, suffix,
                       NoArray, "U"),
            LAMBDA sec_formatted :
         IF day_formatted.err # "none"
         THEN DaySecOutcome(Raise(day_formatted.err, buf), adj)
         ELSE IF sec_formatted.err # "none"
         THEN DaySecOutcome(Raise(sec_formatted.err, buf), adj)
         ELSE
         LET date0 == day_formatted.ret.data[1]
             time0 == sec_formatted.ret.data[1]
             result0 == IF time_first THEN time0 \o sep \o date0
                        ELSE date0 \o sep \o time0
             ltime == Len(time0)
             ldate == Len(date0)
             lstring == ltime + ldate + lsep
             offsets == SubRecordOffsets(time_first, ldate, lsep, ltime)
             date_off == offsets.date
             sep_off == offsets.sep
             time_off == offsets.time
             days == DayArray(shape, [j \in 1..Len(adj) |-> adj[j].day])
             secs == [shape |-> shape, data |-> [j \in 1..Len(adj) |-> adj[j].sec]]
         IN IF shape = <<>> /\ buf = NoArray
            THEN DaySecOutcome(Return(buf, TextArray(kind_, <<>>, Len(result0),
                                                     <<result0>>)), adj)
            ELSE IF buf # NoArray /\ lstring > buf.width
            THEN DaySecOutcome(TooSmall(buf), adj)
            ELSE
            With(Destination(buf, kind_, shape, lstring), LAMBDA dest :
            With([dest EXCEPT !.data =
                    [j \in 1..Len(dest.data) |->
                       IF lsep > 0 /\ j \in Targets(dest.shape, shape)
                       THEN PutField(dest.data[j], sep_off, lsep, sep)
                       ELSE dest.data[j]]],
                 LAMBDA with_sep :
            With(SubView(with_sep, shape, date_off, ldate), LAMBDA date_view :
            With(format_day(days, ymd_order, ydigits, dash, NoDigits, proleptic,
                            date_view, kind),
                 LAMBDA dated :
            With(MergeView(with_sep, shape, date_off, ldate, dated.buf),
                 LAMBDA with_date :
              IF dated.err # "none"
              THEN DaySecOutcome(Raise(dated.err, kept(with_date)), adj)
              ELSE
              With(SubView(with_date, shape, time_off, ltime), LAMBDA time_view :
              With(format_sec(secs, digits, colon, suffix, time_view, kind),
                   LAMBDA timed :
              With(MergeView(with_date, shape, time_off, ltime, timed.buf),
                   LAMBDA with_time :
                IF timed.err # "none"
                THEN DaySecOutcome(Raise(timed.err, kept(with_time)), adj)
                ELSE DaySecOutcome(Return(kept(with_time), with_time), adj))))))))))))


(***************************************************************************)
(* Decoding (iso_parser.py).  `strings` is a text array as                 *)
(* np.array(strings).astype('S') leaves it: every record has the array's   *)
(* width, a shorter one ending in NUL.                                     *)
(***************************************************************************)
Fail(e) == [err |-> e, val |-> <<>>]
Value(v) == [err |-> "none", val |-> v]

\* _count_white (iso_parser.py 13-30): (leading blanks, trailing blanks); the
\* loops stop at the last index when every character is a blank
CountWhite(string) ==
    LET n == Len(string)
        lead == {i \in 0..(n - 1) : string[i + 1] # " "}
        trail == {i \in 0..(n - 1) : string[n - i] # " "}
        least(S) == CHOOSE i \in S : \A j \in S : i <= j
    IN IF n = 0 THEN <<0, 0>>
       ELSE <<IF lead = {} THEN n - 1 ELSE least(lead),
              IF trail = {} THEN n - 1 ELSE least(trail)>>

\* the integer NumPy reads from a field (.astype('int')): blanks around the
\* number and a sign are accepted, anything else but digits is a ValueError
LStrip(s, c) ==
    With(s, LAMBDA t :
        SubSeq(t, 1 + (CHOOSE k \in 0..Len(t) :
                          /\ k = Len(t) \/ t[k + 1] # c
                          /\ \A i \in 1..k : t[i] = c), Len(t)))

ParseInt(field) ==
    LET t == LStrip(RStrip(RStrip(field, NUL), " "), " ")
        signed == t # <<>> /\ t[1] \in {"-", "+"}
        digs == IF signed THEN Tail(t) ELSE t
    IN IF digs = <<>> \/ \E i \in 1..Len(digs) : ~IsDigit(digs[i])
       THEN [ok |-> FALSE, v |-> 0]
       ELSE [ok |-> TRUE,
             v |-> IF signed /\ t[1] = "-" THEN -DigitsValue(digs) ELSE DigitsValue(digs)]

\* the value of a field of a record, as NumPy compares it: trailing NULs dropped
FieldOf(rec, off, len) == RStrip(Slice(rec, off, off + len), NUL)

\* ISO_DATE_FORMAT_INFO (iso_parser.py 33-42):
\* (stripped_length, dash_count) -> (y1, m0, d0, dlen, dash_locs)
Info(y1, m0, d0, dlen, dashes) ==
    [known |-> TRUE, y1 |-> y1, m0 |-> m0, d0 |-> d0, dlen |-> dlen, dashes |-> dashes]

\* the catalog with the day of yyyyddd placed one character late
CatalogDayLate(length, ndashes) ==
    CASE length = 10 /\ ndashes = 2 -> Info(4, 5, 8, 2, <<4, 7>>)
      [] length = 8 /\ ndashes = 1 -> Info(4, 0, 5, 3, <<4>>)
      [] length = 8 /\ ndashes = 2 -> Info(2, 3, 6, 2, <<2, 5>>)
      [] length = 6 /\ ndashes = 1 -> Info(2, 0, 3, 3, <<2>>)
      [] length = 8 /\ ndashes = 0 -> Info(4, 4, 6, 2, <<>>)
      [] length = 7 /\ ndashes = 0 -> Info(4, 0, 5, 3, <<>>)
      [] length = 6 /\ ndashes = 0 -> Info(2, 2, 4, 2, <<>>)
      [] length = 5 /\ ndashes = 0 -> Info(2, 0, 2, 3, <<>>)
      [] OTHER -> [known |-> FALSE, y1 |-> 0, m0 |-> 0, d0 |-> 0, dlen |-> 0,
                   dashes |-> <<>>]

ISO_DATE_FORMAT_INFO(length, ndashes) ==
    CASE length = 10 /\ ndashes = 2 -> Info(4, 5, 8, 2, <<4, 7>>)
      [] length = 8 /\ ndashes = 1 -> Info(4, 0, 5, 3, <<4>>)
      [] length = 8 /\ ndashes = 2 -> Info(2, 3, 6, 2, <<2, 5>>)
      [] length = 6 /\ ndashes = 1 -> Info(2, 0, 3, 3, <<2>>)
      [] length = 8 /\ ndashes = 0 -> Info(4, 4, 6, 2, <<>>)
      [] length = 7 /\ ndashes = 0 -> Info(4, 0, 4, 3, <<>>)
      [] length = 6 /\ ndashes = 0 -> Info(2, 2, 4, 2, <<>>)
      [] length = 5 /\ ndashes = 0 -> Info(2, 0, 2, 3, <<>>)
      [] OTHER -> [known |-> FALSE, y1 |-> 0, m0 |-> 0, d0 |-> 0, dlen |-> 0,
                   dashes |-> <<>>]

\* the layout day_from_iso infers from the first record (iso_parser.py 79-104)
DayLayout(strings, strip) ==
    LET first == RStrip(strings.data[1], NUL)
        lfirst == Len(first)
        w == IF strip THEN CountWhite(first) ELSE <<0, 0>>
        w0 == w[1]
        w1 == w[2]
        lstripped == lfirst - w0 - w1
        kdot == Max(0, Find(first, ".", 0))
        kend == w0 + lstripped
        kints == IF kdot # 0 THEN kdot ELSE kend
        ndashes == Count(first, "-")
    IN [first |-> first, lfirst |-> lfirst, w0 |-> w0, w1 |-> w1,
        w2 |-> strings.width - lfirst, kdot |-> kdot, kend |-> kend, kints |-> kints,
        ndashes |-> ndashes, flen |-> IF kdot # 0 THEN kend - kdot - 1 ELSE 0,
        info |-> ISO_DATE_FORMAT_INFO(kints - w0, ndashes)]

\* the syntax pass of day_from_iso (iso_parser.py 138-157): the error raised,
\* "none" if every record passes
DaySyntax(strings, L) ==
    LET recs == strings.data
        n == Len(recs)
        dashAt(i) == L.w0 + L.info.dashes[i]
        has(rec, off, len, c) == \E k \in (off + 1)..(off + len) : rec[k] = c
    IN IF \E i \in 1..Len(L.info.dashes) : \E j \in 1..n :
             FieldOf(recs[j], dashAt(i), 1) # <<"-">>
       THEN "ValueError: inconsistent dashes in ISO date"
       ELSE IF L.w0 > 0 /\ \E j \in 1..n : FieldOf(recs[j], 0, L.w0) # Repeat(" ", L.w0)
       THEN "ValueError: inconsistent white space in ISO date"
       ELSE IF L.w1 > 0 /\ \E j \in 1..n :
                 FieldOf(recs[j], L.kend, L.w1) # Repeat(" ", L.w1)
       THEN "ValueError: inconsistent white space in ISO date"
       ELSE IF L.w2 > 0 /\ \E j \in 1..n : FieldOf(recs[j], L.lfirst, 1) # <<>>
       THEN "ValueError: inconsistent null termination in ISO date"
       ELSE IF \E j \in 1..n : has(recs[j], L.w0, L.kend - L.w0, " ")
       THEN "ValueError: invalid blank character in ISO date"
       ELSE IF \E j \in 1..n :
                 \/ has(recs[j], L.w0, L.info.y1, "-")
                 \/ has(recs[j], L.w0 + L.info.d0, L.info.dlen, "-")
                 \/ (L.info.m0 # 0 /\ has(recs[j], L.w0 + L.info.m0, 2, "-"))
                 \/ (L.flen > 0 /\ has(recs[j], L.kdot + 1, L.flen, "-"))
       THEN "ValueError: invalid negative value in ISO date"
       ELSE "none"

\* day_from_iso (iso_parser.py 45-169): [err, val]; val is one
\* [day, num, flen] per record, the day number being day + num / 10^flen
day_from_iso(strings, validate, syntax, strip, proleptic) ==
    With(DayLayout(strings, strip), LAMBDA L :
    LET recs == strings.data
        n == Len(recs)
        y == [j \in 1..n |-> ParseInt(FieldOf(recs[j], L.w0, L.info.y1))]
        d == [j \in 1..n |-> ParseInt(FieldOf(recs[j], L.w0 + L.info.d0, L.info.dlen))]
        m == [j \in 1..n |-> IF L.info.m0 # 0
                             THEN ParseInt(FieldOf(recs[j], L.w0 + L.info.m0, 2))
                             ELSE [ok |-> TRUE, v |-> 0]]
        f == [j \in 1..n |-> IF L.flen > 0
                             THEN ParseInt(FieldOf(recs[j], L.kdot + 1, L.flen))
                             ELSE [ok |-> TRUE, v |-> 0]]
        day == [j \in 1..n |->
                   IF L.info.m0 # 0
                   THEN day_from_ymd(y[j].v, m[j].v, d[j].v, validate, proleptic)
                   ELSE day_from_yd(y[j].v, d[j].v, validate, proleptic)]
    IN IF ~L.info.known
       THEN Fail("ValueError: unrecognized ISO date format")
       ELSE IF L.w2 > 1
       THEN Fail("ValueError: dtype itemsize")
       ELSE IF \E j \in 1..n : ~(y[j].ok /\ d[j].ok /\ m[j].ok /\ f[j].ok)
       THEN Fail("ValueError: invalid literal for int")
       ELSE IF syntax /\ DaySyntax(strings, L) # "none"
       THEN Fail(DaySyntax(strings, L))
       ELSE IF \E j \in 1..n : day[j].err # "none"
       THEN Fail("InvalidCalendarValue")
       ELSE Value([j \in 1..n |-> [day |-> day[j].day, num |-> f[j].v, flen |-> L.flen]]))


\* the 0-based positions of character c in a text, in increasing order
Where(s, c) ==
    LET hits == {i \in 0..(Len(s) - 1) : s[i + 1] = c}
    IN [k \in 1..Cardinality(hits) |-> Nth(hits, k)]

\* the layout sec_from_iso infers from the first record (iso_parser.py
\* 200-251).  err is the error the inference raises, "none" if none; khms
\* and widths are the start and width of the integer fields found
SecLayout(strings, strip) ==
    LET first == RStrip(strings.data[1], NUL)
        lfirst == Len(first)
        w == IF strip THEN CountWhite(first) ELSE <<0, 0>>
        w0 == w[1]
        w1 == w[2]
        wz == IF first[w0 + (lfirst - w0 - w1)] = "Z" THEN 1 ELSE 0
        lstripped == lfirst - w0 - w1 - wz
        kend == w0 + lstripped
        colons == Where(first, ":")
        kdots == Where(first, ".")
        kdot == IF Len(kdots) = 1 THEN kdots[1] ELSE 0
        kints == IF kdot # 0 THEN kdot ELSE kend
        kcolons == <<w0 - 1>> \o colons
        khms1 == colons \o <<kints>>
        cwidths == [i \in 1..Len(kcolons) |-> khms1[i] - (kcolons[i] + 1)]
        width == kints - w0
        fields == width \div 2
        err == IF lfirst = 0 THEN "IndexError: string index out of range"
               ELSE IF Len(colons) > 2
               THEN "ValueError: unrecognized ISO time format; too many colons"
               ELSE IF Len(kdots) > 1
               THEN "ValueError: unrecognized ISO time format; too many decimals"
               ELSE IF Len(colons) > 0 /\ \E i \in 1..Len(cwidths) : cwidths[i] # 2
               THEN "ValueError: invalid field width in ISO time"
               ELSE IF Len(colons) = 0 /\ (fields > 3 \/ width # fields * 2)
               THEN "ValueError: invalid text width in ISO time format"
               ELSE "none"
    IN [first |-> first, lfirst |-> lfirst, w0 |-> w0, w1 |-> w1,
        w2 |-> strings.width - lfirst, err |-> err,
        wz |-> IF lfirst = 0 THEN 0 ELSE wz,
        kend |-> IF lfirst = 0 THEN 0 ELSE kend,
        kdot |-> kdot, colons |-> colons,
        flen |-> IF lfirst # 0 /\ kdot # 0 THEN kend - kdot - 1 ELSE 0,
        khms |-> IF err # "none" THEN <<>>
                 ELSE IF Len(colons) > 0 THEN [i \in 1..Len(kcolons) |-> kcolons[i] + 1]
                 ELSE [i \in 1..fields |-> w0 + 2 * (i - 1)],
        widths |-> IF err # "none" THEN <<>>
                   ELSE IF Len(colons) > 0 THEN cwidths
                   ELSE [i \in 1..fields |-> 2]]

\* the syntax pass of sec_from_iso (iso_parser.py 294-312)
SecSyntax(strings, L) ==
    LET recs == strings.data
        n == Len(recs)
        has(rec, off, len, c) == \E k \in (off + 1)..(off + len) : rec[k] = c
    IN IF L.w0 > 0 /\ \E j \in 1..n : FieldOf(recs[j], 0, L.w0) # Repeat(" ", L.w0)
       THEN "ValueError: inconsistent white space in ISO time"
       ELSE IF \E i \in 1..Len(L.colons) : \E j \in 1..n :
                 FieldOf(recs[j], L.colons[i], 1) # <<":">>
       THEN "ValueError: inconsistent colons in ISO time"
       ELSE IF L.kdot # 0 /\ \E j \in 1..n : FieldOf(recs[j], L.kdot, 1) # <<".">>
       THEN "ValueError: inconsistent decimal points in ISO time"
       ELSE IF L.wz > 0 /\ \E j \in 1..n : FieldOf(recs[j], L.kend, 1) # <<"Z">>
       THEN "ValueError: inconsistent Z usage in ISO time"
       ELSE IF L.w1 > 0 /\ \E j \in 1..n :
                 FieldOf(recs[j], L.kend + L.wz, L.w1) # Repeat(" ", L.w1)
       THEN "ValueError: inconsistent white space in ISO time"
       ELSE IF L.w2 > 0 /\ \E j \in 1..n : FieldOf(recs[j], L.lfirst, 1) # <<>>
       THEN "ValueError: inconsistent null termination in ISO time"
       ELSE IF \E j \in 1..n : \/ has(recs[j], L.w0, L.kend - L.w0, " ")
                               \/ has(recs[j], L.w0, L.kend - L.w0, "-")
       THEN "ValueError: invalid blank character in ISO time"
       ELSE "none"

\* the fraction added to the seconds whatever fields the layout has
AddFractionToSeconds(i, nf, v, den, f) == v * den + (IF i = 3 THEN f ELSE 0)

\* field i of nf, of value v, as a numerator over den, with the fraction f/den
\* added to it if it is the last field present (iso_parser.py 283-291)
AddFraction(i, nf, v, den, f) == v * den + (IF i = nf THEN f ELSE 0)

\* sec_from_iso (iso_parser.py 173-314): [err, val]; val is one [num, den]
\* per record, the seconds into the day being num / den
sec_from_iso(strings, validate, leapsecs, strip, syntax) ==
    With(SecLayout(strings, strip), LAMBDA L :
    LET recs == strings.data
        n == Len(recs)
        nf == Len(L.widths)
        den == Pow10(L.flen)
        fld(j, i) == IF i <= nf THEN ParseInt(FieldOf(recs[j], L.khms[i], L.widths[i]))
                     ELSE [ok |-> TRUE, v |-> 0]
        f == [j \in 1..n |-> IF L.flen > 0
                             THEN ParseInt(FieldOf(recs[j], L.kdot + 1, L.flen))
                             ELSE [ok |-> TRUE, v |-> 0]]
        part(j, i) == AddFraction(i, nf, fld(j, i).v, den, f[j].v)
        sec == [j \in 1..n |->
                   sec_from_hms(part(j, 1), part(j, 2), part(j, 3), den, validate, leapsecs)]
    IN IF L.err # "none"
       THEN Fail(L.err)
       ELSE IF L.w2 > 1
       THEN Fail("ValueError: dtype itemsize")
       ELSE IF nf = 0
       THEN Fail("ValueError: no field of name h")
       ELSE IF \E j \in 1..n : ~(fld(j, 1).ok /\ fld(j, 2).ok /\ fld(j, 3).ok /\ f[j].ok)
       THEN Fail("ValueError: invalid literal for int")
       ELSE IF syntax /\ SecSyntax(strings, L) # "none"
       THEN Fail(SecSyntax(strings, L))
       ELSE IF \E j \in 1..n : sec[j].err # "none"
       THEN Fail("InvalidTimeValue")
       ELSE Value([j \in 1..n |-> [num |-> sec[j].num, den |-> den]]))

\* a time rejected only when it is past the length of the day
OutOfRangePast(sec, day) == sec.num > seconds_on_day(day) * sec.den

\* sec >= seconds_on_day(day) (iso_parser.py 381-383), sec being num / den
OutOfRange(sec, day) == sec.num >= seconds_on_day(day) * sec.den

\* day_sec_from_iso (iso_parser.py 318-385): [err, val]; val is one
\* [day, num, flen, sec] per record, sec being [num, den]
day_sec_from_iso(strings, validate, syntax, strip, proleptic) ==
    LET first == RStrip(strings.data[1], NUL)
        lfirst == Len(first)
        recs == strings.data
        n == Len(recs)
        iT == Find(first, "T", 0)
        w == CountWhite(first)
        iB == Find(first, " ", w[1])
        csep == IF iT # -1 THEN "T" ELSE " "
        sub(off, len) == TextArray(strings.kind, strings.shape, len,
                                   [j \in 1..n |-> Slice(recs[j], off, off + len)])
    IN With(IF iT # -1 THEN iT ELSE IF iB = lfirst - w[2] THEN -1 ELSE iB, LAMBDA isep :
       IF isep = -1
       THEN With(day_from_iso(strings, validate, FALSE, strip, FALSE), LAMBDA only :
              IF only.err # "none" THEN only
              ELSE Value([j \in 1..n |-> [day |-> only.val[j].day, num |-> only.val[j].num,
                                          flen |-> only.val[j].flen,
                                          sec |-> [num |-> 0, den |-> 1]]]))
       ELSE IF strings.width # lfirst
       THEN Fail("ValueError: dtype itemsize")
       ELSE
       With(sub(0, isep), LAMBDA date :
       With(sub(isep + 1, lfirst - isep - 1), LAMBDA time :
       With(day_from_iso(date, validate, syntax, strip, proleptic), LAMBDA day :
       With(sec_from_iso(time, validate, TRUE, strip, syntax), LAMBDA sec :
         IF day.err # "none" THEN Fail(day.err)
         ELSE IF sec.err # "none" THEN Fail(sec.err)
         ELSE IF syntax /\ \E j \in 1..n : FieldOf(recs[j], isep, 1) # <<csep>>
         THEN Fail("ValueError: invalid ISO date-time punctuation")
         ELSE IF validate /\ \E j \in 1..n : OutOfRange(sec.val[j], day.val[j].day)
         THEN Fail("ValueError: seconds value is outside allowed range")
         ELSE Value([j \in 1..n |-> [day |-> day.val[j].day, num |-> day.val[j].num,
                                     flen |-> day.val[j].flen, sec |-> sec.val[j]]]))))))


(***************************************************************************)
(* The state machine.  The codec keeps no state between calls: a caller    *)
(* makes one call (op, args), gets its outcome (result, and the buffer it  *)
(* passed, as the call left it), may feed the text returned to the         *)
(* matching decoder (back), and is done.                                   *)
(***************************************************************************)
NoBack == [done |-> FALSE, err |-> "none", val |-> <<>>]
Decoded(r) == [done |-> TRUE, err |-> r.err, val |-> r.val]

Idle == op = "none"

Init ==
    /\ op = "none"
    /\ args = <<>>
    /\ result = <<>>
    /\ buffer = NoArray
    /\ back = NoBack
    /\ tables = LoadedTables

\* the caller is done with the outcome of its call
Finish ==
    /\ op # "none"
    /\ op' = "none"
    /\ args' = <<>>
    /\ result' = <<>>
    /\ buffer' = NoArray
    /\ back' = NoBack
    /\ UNCHANGED tables

\* np.array(strings).astype('S') of text an encoder returned
AsStrings(ret) == [ret EXCEPT !.kind = "S"]

Scalar(v) == [shape |-> <<>>, data |-> <<v>>]
Batch(vs) == [shape |-> <<Len(vs)>>, data |-> vs]
SeqsOver(S) == UNION {[1..n -> S] : n \in 1..MaxLen}

YMD == <<"Y", "M", "D">>
YD == <<"Y", "D">>
YMDT == <<"Y", "M", "D", "T">>
YDT == <<"Y", "D", "T">>

\* fractions of a second (or of a day), in ticks: 0, just above 0, just below
\* and at one half, just below and at .95, and just below 1
FracSamples == {0, 1, Tick \div 2 - 1, Tick \div 2,
                Tick - Tick \div 20 - 1, Tick - Tick \div 20, Tick - 1}

DigitOptions == {NoDigits} \cup {Digits(n) : n \in -1..MaxDigits}

(***************************************************************************)
(* Calls of format_day_sec without a buffer, and the round trip through    *)
(* day_sec_from_iso.                                                       *)
(***************************************************************************)
\* the day before a leap-second day, two leap-second days, days around the
\* epoch, the last day of year 9999
DaySecDays == {-367, -366, -1, 0, 2191, 2921939}
SecSamples == {b * Tick + f : b \in {0, 59, 86399, 86400}, f \in FracSamples}

DaySecArgs(day, sec, order, ydigits, dash, sep, colon, digits, suffix, kind) ==
    [day |-> day, sec |-> sec, order |-> order, ydigits |-> ydigits, dash |-> dash,
     sep |-> sep, colon |-> colon, digits |-> digits, suffix |-> suffix,
     proleptic |-> FALSE, buf |-> NoArray, kind |-> kind]

\* every sample value, at every resolution, in the two ISO layouts
DaySecValueCalls ==
    {DaySecArgs(Scalar(d), Scalar(t), o, 4, <<"-">>, <<"T">>, <<":">>, g, <<>>, "U") :
        d \in DaySecDays, t \in SecSamples, o \in {YMDT, YDT}, g \in DigitOptions}

\* every combination of options, on a few values
DaySecOptionCalls ==
    {DaySecArgs(Scalar(0), Scalar(t), o, y, da, se, co, g, su, "S") :
        t \in {3661 * Tick + Tick \div 2, 86399 * Tick + Tick - Tick \div 20},
        o \in {YMDT, YDT, <<"T", "Y", "M", "D">>, <<"D", "M", "Y", "T">>, YMD},
        y \in {2, 4}, da \in {<<>>, <<"-">>, <<"/">>},
        se \in {<<"T">>, <<" ">>, <<>>}, co \in {<<>>, <<":">>},
        g \in {NoDigits, Digits(MaxDigits)}, su \in {<<>>, <<"Z">>}}

\* batches, and a scalar day broadcast against a batch of times
DaySecBatchCalls ==
    LET days == SeqsOver({-366, 0})
        secs == SeqsOver({0, 86399 * Tick + Tick - Tick \div 20, 86400 * Tick + Tick \div 2})
    IN {DaySecArgs(d, Batch(t), o, 4, <<"-">>, <<"T">>, <<":">>, g, <<>>, "U") :
          d \in {Batch(x) : x \in days} \cup {Scalar(0)},
          t \in secs, o \in {YMDT}, g \in {NoDigits, Digits(MaxDigits)}}

DaySecCalls ==
    DaySecValueCalls \cup DaySecOptionCalls
    \cup {a \in DaySecBatchCalls : a.day.shape = <<>> \/ a.day.shape = a.sec.shape}

FormatDaySec ==
    /\ Idle
    /\ \E a \in DaySecCalls :
        \E r \in {format_day_sec(a.day, a.sec, a.order, a.ydigits, a.dash, a.sep, a.colon,
                                a.digits, a.suffix, a.proleptic, a.buf, a.kind)} :
           /\ op' = "format_day_sec"
           /\ args' = a
           /\ result' = [err |-> r.err, ret |-> r.ret, day |-> r.day, sec |-> r.sec]
           /\ buffer' = r.buf
           /\ back' = NoBack
           /\ UNCHANGED tables

\* the caller decodes the text it was given
DecodeDaySec ==
    /\ op = "format_day_sec"
    /\ result.err = "none"
    /\ ~back.done
    /\ \E r \in {day_sec_from_iso(AsStrings(result.ret), TRUE, TRUE, FALSE,
                                args.proleptic)} : back' = Decoded(r)
    /\ UNCHANGED <<op, args, result, buffer, tables>>

Next == FormatDaySec \/ DecodeDaySec \/ Finish

Spec == Init /\ [][Next]_vars


(***************************************************************************)
(* Properties of format_day_sec.                                           *)
(***************************************************************************)
DaySecDone == op = "format_day_sec" /\ result.err = "none"

\* the resolution of a call, in ticks per step
StepOf(a) == Tick \div Pow10(IF a.digits.none \/ a.digits.n < 0 THEN 0 ELSE a.digits.n)

\* the input element j of a call, and the number of steps nearest its seconds
\* (halves go up)
NElems(a) == Product(BroadcastShape(a.day, a.sec))
DayIn(a, j) == Elem(a.day, j)
SecIn(a, j) == Elem(a.sec, j)
Nearest(a, j) == (2 * SecIn(a, j) + StepOf(a)) \div (2 * StepOf(a))
DayLength(d) == seconds_on_day(d) * Tick
RoundsPastDay(a, j) == Nearest(a, j) * StepOf(a) >= DayLength(DayIn(a, j))
ValidSec(a, j) == SecIn(a, j) >= 0 /\ SecIn(a, j) < DayLength(DayIn(a, j))

\* C1: in format_day_sec, for every element of the input, scalar or batch
\* alike: the seconds are rounded to the configured resolution; if the rounded
\* value is at or past seconds_on_day(day) the element's day is incremented by
\* exactly one and its seconds reduced by the length of the original day;
\* otherwise the day is unchanged and the seconds are the rounded ones.
C1_RolloverElementwise ==
    DaySecDone =>
        \A j \in 1..NElems(args) :
            LET u == StepOf(args)
                n == Nearest(args, j)
                len == DayLength(DayIn(args, j))
            IN IF RoundsPastDay(args, j)
               THEN /\ result.day[j] = DayIn(args, j) + 1
                    /\ result.sec[j] \div u = (n * u - len) \div u
               ELSE /\ result.day[j] = DayIn(args, j)
                    /\ result.sec[j] \div u = n

\* a batch of which one element moved to the next day and another did not
C1_Witness ==
    /\ DaySecDone
    /\ BroadcastShape(args.day, args.sec) # <<>>
    /\ \E j, k \in 1..NElems(args) :
        /\ RoundsPastDay(args, j) /\ result.day[j] = DayIn(args, j) + 1
        /\ ~RoundsPastDay(args, k) /\ result.day[k] = DayIn(args, k)

\* C2: for every input with 0 <= sec < seconds_on_day(day) and every digits
\* setting, the seconds handed to the time renderer are strictly less than
\* seconds_on_day of the day handed to the date renderer, also on days whose
\* length is not 86400.
C2_SecondsBelowDayLength ==
    DaySecDone =>
        \A j \in 1..NElems(args) :
            ValidSec(args, j) => result.sec[j] < DayLength(result.day[j])

\* a leap second of a 86401-second day that rounds up to the end of that day
C2_Witness ==
    /\ DaySecDone
    /\ \E j \in 1..NElems(args) :
        /\ ValidSec(args, j)
        /\ seconds_on_day(DayIn(args, j)) # 86400
        /\ SecIn(args, j) >= 86400 * Tick
        /\ result.day[j] = DayIn(args, j) + 1

\* the options under which format_day_sec writes a layout day_sec_from_iso
\* reads: date first, four-digit year, "-" or nothing between the date fields,
\* "T" or one blank before the time, ":" or nothing between the time fields,
\* no suffix or "Z"
IsoDaySecOptions(a) ==
    /\ a.order \in {YMDT, YDT}
    /\ a.ydigits = 4
    /\ a.dash \in {<<>>, <<"-">>}
    /\ a.sep \in {<<"T">>, <<" ">>}
    /\ a.colon \in {<<>>, <<":">>}
    /\ a.suffix \in {<<>>, <<"Z">>}

\* every day rendered falls in the years 0000..9999
FourDigitYears(days, proleptic) ==
    \A j \in 1..Len(days) : ymd_from_day(days[j], proleptic)[1] \in 0..9999

\* the decoded element j is the input (day, sec) to within half a step, or
\* (day + 1, 0) when the seconds round up to the end of the day
DaySecDecodedRight(a, j) ==
    LET v == back.val[j]
        t == v.sec.num * (Tick \div v.sec.den)
        diff == t - SecIn(a, j)
    IN /\ v.num = 0
       /\ IF RoundsPastDay(a, j)
          THEN v.day = DayIn(a, j) + 1 /\ v.sec.num = 0
          ELSE v.day = DayIn(a, j) /\ 2 * diff <= StepOf(a) /\ 2 * diff >= -StepOf(a)

DaySecRoundTrip(a) ==
    /\ back.err = "none"
    /\ \A j \in 1..NElems(a) : DaySecDecodedRight(a, j)

DayOf(y, m, d) == day_from_ymd(y, m, d, FALSE, FALSE).day

\* the days around the years 0000 and 9999, the last day of year 0099, the
\* days around the start of the Gregorian calendar, the days around the epoch
\* and a leap day
DateDays == {DayOf(0, 1, 1) - 1, DayOf(0, 1, 1), DayOf(99, 12, 31),
             DayOf(1582, 10, 4), DayOf(1582, 10, 15), -1, 0, 59,
             DayOf(9999, 12, 31), DayOf(9999, 12, 31) + 1}

\* a day value: whole days i and a fraction of f ticks
DayValue(i, f) == [i |-> i, f |-> f]
DayValues(days) == {DayValue(i, f) : i \in days, f \in FracSamples}

IntDays(shape, days) ==
    [shape |-> shape, data |-> [j \in 1..Len(days) |-> DayValue(days[j], 0)],
     isfloat |-> FALSE]
FloatDays(shape, values) == [shape |-> shape, data |-> values, isfloat |-> TRUE]

DayArgs(day, order, ydigits, dash, ddigits, proleptic, kind) ==
    [day |-> day, order |-> order, ydigits |-> ydigits, dash |-> dash,
     ddigits |-> ddigits, proleptic |-> proleptic, buf |-> NoArray, kind |-> kind]

\* every sample value, at every resolution, year first
DayValueCalls ==
    {DayArgs(d, o, y, <<"-">>, g, p, "U") :
        d \in {FloatDays(<<>>, <<v>>) : v \in DayValues(DateDays)}
              \cup {IntDays(<<>>, <<i>>) : i \in DateDays},
        o \in {YMD, YD}, y \in {2, 4}, g \in DigitOptions, p \in BOOLEAN}

\* every combination of options, on two values
DayOptionCalls ==
    {DayArgs(FloatDays(<<>>, <<v>>), o, y, da, g, FALSE, "S") :
        v \in {DayValue(59, Tick \div 2), DayValue(DayOf(99, 12, 31), Tick - 1)},
        o \in DateOrders, y \in {2, 4}, da \in {<<>>, <<"-">>, <<"/">>},
        g \in {NoDigits, Digits(MaxDigits)}}

DayBatchCalls ==
    {DayArgs(FloatDays(<<Len(vs)>>, vs), o, y, da, g, FALSE, "U") :
        vs \in SeqsOver({DayValue(-1, Tick - 1), DayValue(59, Tick \div 2),
                         DayValue(DayOf(1582, 10, 4), 1),
                         DayValue(DayOf(2099, 12, 31), 0)}),
        o \in {YMD, YD}, y \in {2, 4}, da \in {<<>>, <<"-">>},
        g \in {NoDigits, Digits(MaxDigits)}}

DayCalls == DayValueCalls \cup DayOptionCalls \cup DayBatchCalls

\* format_day, had it stored into the table it indexes
FormatDayWritingTable ==
    /\ Idle
    /\ \E a \in DayCalls :
        \E r \in {format_day(a.day, a.order, a.ydigits, a.dash, a.ddigits, a.proleptic,
                            a.buf, a.kind)} :
           /\ op' = "format_day"
           /\ args' = a
           /\ result' = [err |-> r.err, ret |-> r.ret]
           /\ buffer' = r.buf
           /\ back' = NoBack
           /\ tables' = [tables EXCEPT !.DIGITS2[99] = <<"0", "0">>]

FormatDay ==
    /\ Idle
    /\ \E a \in DayCalls :
        \E r \in {format_day(a.day, a.order, a.ydigits, a.dash, a.ddigits, a.proleptic,
                            a.buf, a.kind)} :
           /\ op' = "format_day"
           /\ args' = a
           /\ result' = [err |-> r.err, ret |-> r.ret]
           /\ buffer' = r.buf
           /\ back' = NoBack
           /\ UNCHANGED tables

\* the caller decodes the text it was given
DecodeDay ==
    /\ op = "format_day"
    /\ result.err = "none"
    /\ ~back.done
    /\ \E r \in {day_from_iso(AsStrings(result.ret), TRUE, TRUE, FALSE, args.proleptic)} :
        back' = Decoded(r)
    /\ UNCHANGED <<op, args, result, buffer, tables>>

NextDate == FormatDay \/ DecodeDay \/ Finish

SpecDate == Init /\ [][NextDate]_vars

\* a fraction was asked for and the value has one
HasDot(a) == a.day.isfloat /\ ~a.ddigits.none /\ a.ddigits.n >= 0
DayStep(a) == Tick \div Pow10(IF HasDot(a) THEN a.ddigits.n ELSE 0)

\* the value of element j at the requested precision, in ticks past the start
\* of day a.day.data[j].i: the nearest step (halves go up) with a fraction,
\* the start of the day without
DayAtPrecision(a, j) ==
    IF HasDot(a)
    THEN ((2 * a.day.data[j].f + DayStep(a)) \div (2 * DayStep(a))) * DayStep(a)
    ELSE 0

\* the calendar year of the day rendered for element j
YearRendered(a, j) ==
    ymd_from_day(a.day.data[j].i + DayAtPrecision(a, j) \div Tick, a.proleptic)[1]

DayDecodedRight(a, j) ==
    LET v == back.val[j]
        t == (v.day - a.day.data[j].i) * Tick + v.num * (Tick \div Pow10(v.flen))
    IN /\ v.day - a.day.data[j].i \in {0, 1}
       /\ t = DayAtPrecision(a, j)

DayRoundTrip(a) ==
    /\ back.err = "none"
    /\ \A j \in 1..Len(a.day.data) : DayDecodedRight(a, j)

IsoDayOptions(a) ==
    /\ a.order \in {YMD, YD}
    /\ a.dash \in {<<>>, <<"-">>}

\* the years a record of ydigits year digits identifies
YearsOf(ydigits) == IF ydigits = 4 THEN 0..9999 ELSE 0..99

DateTexts ==
    {<<"2", "0", "0", "0", "-", "0", "1", "-", "0", "1">>,
     <<"2", "0", "0", "0", "-", "0", "0", "1">>,
     <<"0", "0", "-", "0", "1", "-", "0", "1">>,
     <<"0", "0", "-", "0", "0", "1">>,
     <<"2", "0", "0", "0", "0", "1", "0", "1">>,
     <<"2", "0", "0", "0", "0", "0", "1">>,
     <<"0", "0", "0", "1", "0", "1">>,
     <<"0", "0", "0", "0", "1">>,
     <<"2", "0", "0", "0", "-", "0", "1", "-", "0", "1", ".", "5">>,
     <<"2", "0", "0", "0", "0", "0", "1", ".", "2", "5">>,
     <<" ", "2", "0", "0", "0", "-", "0", "1", "-", "0", "1", " ">>,
     <<".", "2", "0", "0", "0", "0", "1", "0">>,
     <<"2", "0", "0", "0", "-", "1", "-", "1">>,
     <<"2", "0", "0", "0", "/", "0", "1", "/", "0", "1">>,
     <<"2", "0", "0", "0", "0", "1", "0", "1", "1">>,
     <<"2", "0", "0", "0", "-", "0", "2", "-", "3", "0">>,
     <<" ", "2", "0", "0", "0", "0", "1">>,
     <<" ", " ", "2", "0", "0", "0", "0", "0", "1", ".", "2", "5", " ">>}

\* times of one to three fields, with a fraction of the seconds, of the
\* minutes (12:34.5Z) and of the hours (12.25), a Z, padding, a leap
\* second, and texts that are no time: Z, .5, 1:2, 12:34:56:78, 1.2.3, 123,
\* 12345678, 24:00:00
TimeTexts ==
    {<<"1", "2">>,
     <<"1", "2", "3", "4">>,
     <<"1", "2", ":", "3", "4">>,
     <<"1", "2", ":", "3", "4", ":", "5", "6">>,
     <<"1", "2", "3", "4", "5", "6", "Z">>,
     <<"1", "2", ":", "3", "4", ":", "5", "6", ".", "5">>,
     <<"1", "2", ":", "3", "4", ".", "5", "Z">>,
     <<" ", "1", "2", ":", "3", "4", ":", "5", "6", " ">>,
     <<"2", "3", ":", "5", "9", ":", "6", "0">>,
     <<"Z">>,
     <<".", "5">>,
     <<"1", ":", "2">>,
     <<"1", "2", ":", "3", "4", ":", "5", "6", ":", "7", "8">>,
     <<"1", ".", "2", ".", "3">>,
     <<"1", "2", "3">>,
     <<"1", "2", "3", "4", "5", "6", "7", "8">>,
     <<"2", "4", ":", "0", "0", ":", "0", "0">>,
     <<" ", "1", "2", "3", "4", "5">>,
     <<" ", " ", "1", "2", ":", "3", "4", ":", "5", "6", ".", "5", "Z", " ">>,
     <<"1", "2", ".", "2", "5">>}

\* date-times with a T or a blank, dates alone, a leap second on a day that
\* has one and on a day that has none, and a date of the missing October 1582
DateTimeTexts ==
    {<<"2", "0", "0", "0", "-", "0", "1", "-", "0", "1", "T", "1", "2", ":", "3", "4", ":", "5", "6">>,
     <<"2", "0", "0", "0", "-", "0", "1", "-", "0", "1", " ", "1", "2", ":", "3", "4", ":", "5", "6", ".", "5", "Z">>,
     <<"2", "0", "0", "0", "0", "0", "1", "T", "1", "2", "3", "4">>,
     <<" ", "2", "0", "0", "0", "-", "0", "1", "-", "0", "1", "T", "1", "2", ":", "3", "4", " ">>,
     <<"2", "0", "0", "0", "-", "0", "1", "-", "0", "1">>,
     <<" ", "2", "0", "0", "0", "-", "0", "1", "-", "0", "1">>,
     <<"2", "0", "0", "0", "-", "0", "1", "-", "0", "1", ".", "5">>,
     <<"1", "9", "9", "8", "-", "1", "2", "-", "3", "1", "T", "2", "3", ":", "5", "9", ":", "6", "0">>,
     <<"2", "0", "0", "0", "-", "0", "1", "-", "0", "1", "T", "2", "3", ":", "5", "9", ":", "6", "0">>,
     <<"1", "5", "8", "2", "-", "1", "0", "-", "1", "0", "T", "0", "0", ":", "0", "0">>}

MutChars == {"x", " ", "-", ".", ":", "0"}
Mutate(s, k, c) == [s EXCEPT ![k] = c]

\* np.array(text).astype('S') of one text: an empty text is a record of one NUL
OneText(first) ==
    IF first = <<>> THEN TextArray("S", <<>>, 1, <<<<NUL>>>>)
    ELSE TextArray("S", <<>>, Len(first), <<first>>)

TextBatches(first) ==
    {OneText(first)}
    \cup UNION {UNION {{TextArray("S", <<n>>, Len(first),
                                  [j \in 1..n |-> IF j = at THEN Mutate(first, k, c)
                                                  ELSE first]) :
                           k \in 1..Len(first), c \in MutChars} :
                       at \in 2..n} :
                n \in 2..MaxLen}

DecodeArgs(strings, validate, syntax, strip) ==
    [strings |-> strings, validate |-> validate, syntax |-> syntax, strip |-> strip,
     proleptic |-> FALSE, leapsecs |-> TRUE]

DecodeCalls(texts) ==
    {DecodeArgs(b, TRUE, sy, st) :
        b \in UNION {TextBatches(t) : t \in texts}, sy \in BOOLEAN, st \in BOOLEAN}
    \cup {DecodeArgs(OneText(t), FALSE, FALSE, FALSE) : t \in texts \cup {<<>>}}

DayFromIso ==
    /\ Idle
    /\ \E a \in DecodeCalls(DateTexts) :
        \E r \in {day_from_iso(a.strings, a.validate, a.syntax, a.strip, a.proleptic)} :
           /\ op' = "day_from_iso"
           /\ args' = a
           /\ result' = [err |-> r.err, val |-> r.val,
                         layout |-> DayLayout(a.strings, a.strip)]
           /\ UNCHANGED <<buffer, back, tables>>

SecFromIso ==
    /\ Idle
    /\ \E a \in DecodeCalls(TimeTexts) :
        \E r \in {sec_from_iso(a.strings, a.validate, a.leapsecs, a.strip, a.syntax)} :
           /\ op' = "sec_from_iso"
           /\ args' = a
           /\ result' = [err |-> r.err, val |-> r.val,
                         layout |-> SecLayout(a.strings, a.strip)]
           /\ UNCHANGED <<buffer, back, tables>>

\* a date before the Gregorian calendar, alone and with a time, decoded
\* under either calendar
ProlepticCalls ==
    {[DecodeArgs(OneText(t), TRUE, FALSE, FALSE) EXCEPT !.proleptic = p] :
        t \in {<<"1", "5", "0", "0", "-", "0", "1", "-", "0", "1">>,
               <<"1", "5", "0", "0", "-", "0", "1", "-", "0", "1", "T", "0", "0", ":", "0", "0">>},
        p \in BOOLEAN}

DaySecFromIso ==
    /\ Idle
    /\ \E a \in DecodeCalls(DateTimeTexts) \cup ProlepticCalls :
        \E r \in {day_sec_from_iso(a.strings, a.validate, a.syntax, a.strip, a.proleptic)} :
           /\ op' = "day_sec_from_iso"
           /\ args' = a
           /\ result' = [err |-> r.err, val |-> r.val, layout |-> <<>>]
           /\ UNCHANGED <<buffer, back, tables>>

NextDecode == DayFromIso \/ SecFromIso \/ DaySecFromIso \/ Finish

SpecDecode == Init /\ [][NextDecode]_vars


(***************************************************************************)
(* Properties of the decoders.                                             *)
(***************************************************************************)
\* the text of the first record, and the padding stripped from it
FirstOf(strings) == RStrip(strings.data[1], NUL)
PaddingOf(a) == IF a.strip THEN CountWhite(FirstOf(a.strings)) ELSE <<0, 0>>

\* the 1-based position of the first "." of a text, 0 if it has none
FirstDot(s) ==
    IF \E k \in 1..Len(s) : s[k] = "."
    THEN CHOOSE k \in 1..Len(s) : s[k] = "." /\ \A i \in 1..(k - 1) : s[i] # "."
    ELSE 0

\* the stripped text before any "."
DateIntegerPart(a) ==
    LET first == FirstOf(a.strings)
        w == PaddingOf(a)
        stop == IF FirstDot(first) # 0 THEN FirstDot(first) - 1 ELSE Len(first) - w[2]
    IN SubSeq(first, w[1] + 1, stop)

Cataloged == {<<10, 2>>, <<8, 1>>, <<8, 2>>, <<6, 1>>, <<8, 0>>, <<7, 0>>, <<6, 0>>, <<5, 0>>}

\* C5: day_from_iso classifies the first record by the pair (length of the
\* stripped integer part before any ".", number of "-") into one of the eight
\* cataloged layouts and takes the field offsets from that entry; every other
\* pair raises the unrecognized-format error that names the string, and no
\* value is returned.
C5_AsStated ==
    op = "day_from_iso" =>
        LET pair == <<Len(DateIntegerPart(args)), Count(FirstOf(args.strings), "-")>>
        IN IF pair \in Cataloged
           THEN result.layout.info = ISO_DATE_FORMAT_INFO(pair[1], pair[2])
           ELSE /\ result.err = "ValueError: unrecognized ISO date format"
                /\ result.val = <<>>

\* the errors of sec_from_iso that name the record as no time
UnrecognizedTime ==
    {"ValueError: unrecognized ISO time format; too many colons",
     "ValueError: unrecognized ISO time format; too many decimals",
     "ValueError: invalid field width in ISO time",
     "ValueError: invalid text width in ISO time format"}

\* the stripped text before any "." or trailing "Z"
TimeIntegerPart(a) ==
    LET first == FirstOf(a.strings)
        w == PaddingOf(a)
        end == Len(first) - w[2]
        z == IF end >= 1 /\ first[end] = "Z" THEN 1 ELSE 0
        stop == IF FirstDot(first) # 0 THEN FirstDot(first) - 1 ELSE end - z
    IN SubSeq(first, w[1] + 1, stop)

\* the widths of the fields the colons of a text delimit
ColonFieldWidths(s) ==
    LET at == <<0>> \o [i \in 1..Count(s, ":") |-> Where(s, ":")[i] + 1] \o <<Len(s) + 1>>
    IN [i \in 1..(Len(at) - 1) |-> at[i + 1] - at[i] - 1]

NotATime(a) ==
    LET first == FirstOf(a.strings)
        ints == TimeIntegerPart(a)
    IN \/ Count(first, ":") > 2
       \/ Count(first, ".") > 1
       \/ Count(first, ":") = 0 /\ Len(ints) \notin {2, 4, 6}
       \/ Count(first, ":") > 0 /\ \E i \in 1..(Count(ints, ":") + 1) :
                                       ColonFieldWidths(ints)[i] # 2

\* C6: the layout sec_from_iso infers from the first record has one to three
\* integer fields, each 2 characters wide; any other width (an empty integer
\* part included), more than two colons or more than one "." is rejected with
\* an unrecognized-format error naming the record.
C6_AsStated ==
    op = "sec_from_iso" =>
        /\ NotATime(args) => result.err \in UnrecognizedTime /\ result.val = <<>>
        /\ result.layout.err = "none" =>
              /\ Len(result.layout.widths) \in 1..3
              /\ \A i \in 1..Len(result.layout.widths) : result.layout.widths[i] = 2

\* some record of the batch differs from the layout L of the first record at
\* a dash, at the decimal point or in the padding, or has a blank or "-" in
\* its year, month, day or fraction
DayPunctuationDiffers(recs, L) ==
    LET numeric == ((L.w0 + 1)..(L.w0 + L.info.y1))
                   \cup ((L.w0 + L.info.d0 + 1)..(L.w0 + L.info.d0 + L.info.dlen))
                   \cup (IF L.info.m0 # 0
                         THEN (L.w0 + L.info.m0 + 1)..(L.w0 + L.info.m0 + 2) ELSE {})
                   \cup (IF L.kdot # 0 THEN (L.kdot + 2)..L.kend ELSE {})
    IN \E j \in 1..Len(recs) :
        \/ \E i \in 1..Len(L.info.dashes) : recs[j][L.w0 + L.info.dashes[i] + 1] # "-"
        \/ L.kdot # 0 /\ recs[j][L.kdot + 1] # "."
        \/ \E k \in (1..L.w0) \cup ((L.kend + 1)..(L.kend + L.w1)) : recs[j][k] # " "
        \/ \E k \in numeric : recs[j][k] \in {" ", "-"}

\* C7: with syntax=True, day_from_iso rejects any batch in which some record
\* differs from the first record's inferred layout at a dash position, at the
\* decimal-point position or in a padding region, or has a blank or "-" inside
\* its year, month, day or fraction field.
C7_AsStated ==
    (/\ op = "day_from_iso" /\ args.syntax
     /\ result.layout.info.known
     /\ DayPunctuationDiffers(args.strings.data, result.layout))
    => result.err # "none"

\* the punctuation of a time layout L: 1-based positions, and the character
\* each is to hold
SecPunctuation(L) ==
    {[at |-> L.colons[i] + 1, c |-> ":"] : i \in 1..Len(L.colons)}
    \cup (IF L.kdot # 0 THEN {[at |-> L.kdot + 1, c |-> "."]} ELSE {})
    \cup (IF L.wz > 0 THEN {[at |-> L.kend + 1, c |-> "Z"]} ELSE {})
    \cup {[at |-> k, c |-> " "] :
             k \in (1..L.w0) \cup ((L.kend + L.wz + 1)..(L.kend + L.wz + L.w1))}

\* the 0-based position of the date/time separator of a text, -1 if it is a
\* date alone
SepAt(first) ==
    LET w == CountWhite(first)
        blank == Find(first, " ", w[1])
    IN IF Find(first, "T", 0) # -1 THEN Find(first, "T", 0)
       ELSE IF blank = Len(first) - w[2] THEN -1 ELSE blank

\* the punctuation of a date-time: the separator, the punctuation of the time
\* after it, and the padding before the date; of a date alone, its padding
DaySecPunctuation(a) ==
    LET first == FirstOf(a.strings)
        isep == SepAt(first)
        w == PaddingOf(a)
        time == TextArray("S", <<>>, Len(first) - isep - 1,
                          <<SubSeq(first, isep + 2, Len(first))>>)
        L == SecLayout(time, a.strip)
    IN IF isep = -1
       THEN {[at |-> k, c |-> " "] :
                k \in (1..w[1]) \cup ((Len(first) - w[2] + 1)..Len(first))}
       ELSE {[at |-> isep + 1, c |-> first[isep + 1]]}
            \cup {[at |-> p.at + isep + 1, c |-> p.c] : p \in SecPunctuation(L)}
            \cup {[at |-> k, c |-> " "] : k \in 1..w[1]}

PunctuationOf(a) ==
    IF op = "sec_from_iso" THEN SecPunctuation(result.layout) ELSE DaySecPunctuation(a)

\* the outcome of the same call on a batch whose records all are the first one
UniformOutcome(a) ==
    LET same == [a.strings EXCEPT !.data = [j \in 1..Len(a.strings.data) |->
                                                a.strings.data[1]]]
    IN IF op = "sec_from_iso"
       THEN sec_from_iso(same, a.validate, a.leapsecs, a.strip, a.syntax)
       ELSE day_sec_from_iso(same, a.validate, a.syntax, a.strip, a.proleptic)

\* C8: with syntax=True, sec_from_iso and day_sec_from_iso reject any batch in
\* which some record differs from the first record's inferred layout at a
\* colon, the decimal point, the "Z", a padding region or the date/time
\* separator; with syntax=False none of these characters is examined.
C8_AsStated ==
    (op \in {"sec_from_iso", "day_sec_from_iso"} /\ UniformOutcome(args).err = "none") =>
        LET recs == args.strings.data
            P == PunctuationOf(args)
        IN /\ (args.syntax /\ \E j \in 1..Len(recs) : \E p \in P : recs[j][p.at] # p.c)
                  => result.err # "none"
           /\ (~args.syntax /\ \A j \in 1..Len(recs) : \A k \in 1..Len(recs[j]) :
                                  recs[j][k] # recs[1][k] => k \in {p.at : p \in P})
                  => /\ result.err = UniformOutcome(args).err
                     /\ result.val = UniformOutcome(args).val


(***************************************************************************)
(* Calls of the encoders that write into a buffer of the caller.           *)
(***************************************************************************)
\* a buffer of the caller, holding the caller's own content in every record
CallerBuffer(kind, shape, width) ==
    TextArray(kind, shape, width, [j \in 1..Product(shape) |-> Repeat("#", width)])

\* the buffers offered for an input of `shape`: of the input's shape, longer
\* and shorter along the last axis, and with another leading dimension
BufferShapes(shape) ==
    IF shape = <<>> THEN {<<>>, <<2>>}
    ELSE {shape,
          [shape EXCEPT ![Len(shape)] = @ + 1],
          <<2>> \o shape}
         \cup (IF Last(shape) > 1 THEN {[shape EXCEPT ![Len(shape)] = @ - 1]} ELSE {})

BufferKinds == {"U", "S", "i"}

\* the input shapes: a scalar, batches of every length, two rows of one
InputShapes == {<<>>, <<2, 1>>} \cup {<<n>> : n \in 1..MaxLen}

BuffersFor(shape, widths) ==
    {CallerBuffer(k, bs, w) : k \in BufferKinds, bs \in BufferShapes(shape), w \in widths}

DayBufferCalls ==
    UNION {{[DayArgs(FloatDays(shape, [j \in 1..Product(shape) |->
                                          DayValue(58 + j, Tick \div 2)]),
                     o, y, <<"-">>, g, FALSE, "U") EXCEPT !.buf = b] :
               o \in {YMD, YD, <<"Y", "Y">>}, y \in {2, 3, 4},
               g \in {NoDigits, Digits(MaxDigits)},
               b \in BuffersFor(shape, {7, 10, 12})} :
           shape \in InputShapes}

SecArgs(sec, digits, colon, suffix, buf, kind) ==
    [sec |-> sec, digits |-> digits, colon |-> colon, suffix |-> suffix,
     buf |-> buf, kind |-> kind]

SecBufferCalls ==
    UNION {{SecArgs([shape |-> shape,
                     data |-> [j \in 1..Product(shape) |-> (3600 + j) * Tick + Tick \div 2]],
                    g, co, su, b, "U") :
               g \in {NoDigits, Digits(MaxDigits)}, co \in {<<>>, <<":">>},
               su \in {<<>>, <<"Z">>},
               b \in BuffersFor(shape, {5, 8, 11})} :
           shape \in InputShapes}

DaySecBufferCalls ==
    UNION {{[DaySecArgs([shape |-> shape, data |-> [j \in 1..Product(shape) |-> 58 + j]],
                        [shape |-> shape,
                         data |-> [j \in 1..Product(shape) |->
                                     (86399 + j - 1) * Tick + Tick \div 2]],
                        o, y, <<"-">>, se, <<":">>, g, <<>>, "U") EXCEPT !.buf = b] :
               o \in {YMDT, <<"T", "Y", "D">>, YMD, <<"Y", "Y", "T">>}, y \in {2, 3, 4},
               se \in {<<>>, <<"T">>}, g \in {NoDigits, Digits(MaxDigits)},
               b \in BuffersFor(shape, {12, 19, 22})} :
           shape \in InputShapes}

\* the values of `kind` a caller passes: text, bytes, and one that is neither
KindArgs == {"U", "S", "x"}

\* calls with every value of `kind`, with a buffer of either kind and without
KindBuffers(shape, widths) ==
    {NoArray} \cup {CallerBuffer(k, bs, w) :
                       k \in {"U", "S"}, bs \in {shape, <<2>> \o shape}, w \in widths}

DayKindCalls ==
    UNION {{[DayArgs(FloatDays(shape, [j \in 1..Product(shape) |->
                                          DayValue(58 + j, Tick \div 2)]),
                     o, 4, <<"-">>, NoDigits, FALSE, k) EXCEPT !.buf = b] :
               o \in {YMD, <<"Y", "Y">>}, k \in KindArgs,
               b \in KindBuffers(shape, {10, 12})} :
           shape \in InputShapes}

SecKindCalls ==
    UNION {{SecArgs([shape |-> shape,
                     data |-> [j \in 1..Product(shape) |-> (3600 + j) * Tick + Tick \div 2]],
                    NoDigits, <<":">>, <<>>, b, k) :
               k \in KindArgs, b \in KindBuffers(shape, {8, 11})} :
           shape \in InputShapes}

DaySecKindCalls ==
    UNION {{[DaySecArgs([shape |-> shape, data |-> [j \in 1..Product(shape) |-> 58 + j]],
                        [shape |-> shape,
                         data |-> [j \in 1..Product(shape) |->
                                     (86399 + j - 1) * Tick + Tick \div 2]],
                        o, 4, <<"-">>, <<"T">>, <<":">>, NoDigits, <<>>, k)
                EXCEPT !.buf = b] :
               o \in {YMDT, YMD}, k \in KindArgs, b \in KindBuffers(shape, {19, 22})} :
           shape \in InputShapes}

FormatDayInto ==
    /\ Idle
    /\ \E a \in DayBufferCalls \cup DayKindCalls :
        \E r \in {format_day(a.day, a.order, a.ydigits, a.dash, a.ddigits, a.proleptic,
                            a.buf, a.kind)} :
           /\ op' = "format_day"
           /\ args' = a
           /\ result' = [err |-> r.err, ret |-> r.ret]
           /\ buffer' = r.buf
           /\ back' = NoBack
           /\ UNCHANGED tables

FormatSecInto ==
    /\ Idle
    /\ \E a \in SecBufferCalls \cup SecKindCalls :
        \E r \in {format_sec(a.sec, a.digits, a.colon, a.suffix, a.buf, a.kind)} :
           /\ op' = "format_sec"
           /\ args' = a
           /\ result' = [err |-> r.err, ret |-> r.ret]
           /\ buffer' = r.buf
           /\ back' = NoBack
           /\ UNCHANGED tables

FormatDaySecInto ==
    /\ Idle
    /\ \E a \in DaySecBufferCalls \cup DaySecKindCalls :
        \E r \in {format_day_sec(a.day, a.sec, a.order, a.ydigits, a.dash, a.sep, a.colon,
                                a.digits, a.suffix, a.proleptic, a.buf, a.kind)} :
           /\ op' = "format_day_sec"
           /\ args' = a
           /\ result' = [err |-> r.err, ret |-> r.ret, day |-> r.day, sec |-> r.sec]
           /\ buffer' = r.buf
           /\ back' = NoBack
           /\ UNCHANGED tables

NextBuffer == FormatDayInto \/ FormatSecInto \/ FormatDaySecInto \/ Finish

SpecBuffer == Init /\ [][NextBuffer]_vars

Encoders == {"format_day", "format_sec", "format_day_sec"}

\* the shape of the input of the call
InputShape(a) ==
    IF op = "format_day" THEN a.day.shape
    ELSE IF op = "format_sec" THEN a.sec.shape
    ELSE BroadcastShape(a.day, a.sec)

\* the call on the first element alone, as a batch of one, without a buffer
OneOf(x) == [x EXCEPT !.shape = <<1>>, !.data = <<x.data[1]>>]
Unbuffered(a) ==
    IF op = "format_day"
    THEN format_day(OneOf(a.day), a.order, a.ydigits, a.dash, a.ddigits, a.proleptic,
                    NoArray, a.buf.kind)
    ELSE IF op = "format_sec"
    THEN format_sec(OneOf(a.sec), a.digits, a.colon, a.suffix, NoArray, a.buf.kind)
    ELSE format_day_sec(OneOf(a.day), OneOf(a.sec), a.order, a.ydigits, a.dash, a.sep,
                        a.colon, a.digits, a.suffix, a.proleptic, NoArray, a.buf.kind)

\* the width of the record the call synthesizes
Synthesized(a) == Unbuffered(a).ret.width

\* the record of the buffer at flat position j is one the call writes
Written(a, j) == j \in Targets(a.buf.shape, InputShape(a))

\* C9: when an encoder writes into a buffer of the caller that is larger than
\* needed (wider records, or more elements along the last axis), the bytes
\* outside the declared fields of the written records keep the content the
\* caller had placed there.
C9_AsStated ==
    (op \in Encoders /\ args.buf # NoArray /\ result.err = "none") =>
        \A j \in 1..Len(buffer.data) : \A i \in 1..buffer.width :
            (~Written(args, j) \/ i > Synthesized(args))
                => buffer.data[j][i] = args.buf.data[j][i]

PreFlightErrors ==
    {"ValueError: unrecognized date format order",
     "ValueError: ydigits must equal 2 or 4",
     "ValueError: T missing from order specification",
     "ValueError: invalid buffer kind",
     "ValueError: buffer shape does not match",
     "ValueError: buffer shape is too small",
     "ValueError: buffer itemsize is too small"}

\* C10: every pre-flight failure of an encode call on a buffer of the caller
\* (order, ydigits, missing "T", buffer kind, leading dimensions, last
\* dimension, record width) raises before the first write: the buffer is
\* unchanged when the error is raised.
C10_PreFlightLeavesBuffer ==
    (op \in Encoders /\ args.buf # NoArray /\ result.err \in PreFlightErrors)
        => buffer = args.buf

\* format_day_sec found the records of a buffer holding the caller's content
\* too narrow for the date-time it had rendered
C10_Witness ==
    /\ op = "format_day_sec"
    /\ args.buf # NoArray
    /\ \E j \in 1..Len(args.buf.data) : args.buf.data[j][1] = "#"
    /\ result.err = "ValueError: buffer itemsize is too small"
    /\ buffer = args.buf


(***************************************************************************)
(* The `kind` argument and the kind of a buffer.                           *)
(***************************************************************************)
TextKinds == {"U", "S"}
KindErrors == {"ValueError: invalid kind", "ValueError: invalid buffer kind"}

\* the caller asks for one kind and supplies a buffer of the other
Mismatched(a) ==
    /\ a.buf # NoArray
    /\ a.kind \in TextKinds /\ a.buf.kind \in TextKinds
    /\ a.kind # a.buf.kind

\* the outcome of the call of the state with `kind` replaced by k: the error,
\* the buffer left and the object returned
OutcomeWithKind(a, k) ==
    IF op = "format_day"
    THEN With(format_day(a.day, a.order, a.ydigits, a.dash, a.ddigits, a.proleptic,
                         a.buf, k),
              LAMBDA r : <<r.err, r.buf, r.ret>>)
    ELSE IF op = "format_sec"
    THEN With(format_sec(a.sec, a.digits, a.colon, a.suffix, a.buf, k),
              LAMBDA r : <<r.err, r.buf, r.ret>>)
    ELSE With(format_day_sec(a.day, a.sec, a.order, a.ydigits, a.dash, a.sep, a.colon,
                             a.digits, a.suffix, a.proleptic, a.buf, k),
              LAMBDA r : <<r.err, r.buf, r.ret>>)

\* C11 as stated: an encode call that asks for one output kind ("U" or "S")
\* and supplies a buffer of the other kind fails with a configuration error.
C11_AsStated ==
    (op \in Encoders /\ Mismatched(args)) => result.err # "none"

\* C11 as the code has it: asking for one kind and supplying a buffer of the
\* other is no error of its own, the call fails exactly when the call asking
\* for the buffer's kind fails, and never on the kind; a kind is refused only
\* as the kind of a buffer that is neither text nor bytes, or as the `kind`
\* of a call without a buffer that is neither.
C11_KindErrorsOnly ==
    op \in Encoders =>
        /\ Mismatched(args) =>
              /\ result.err \notin KindErrors
              /\ result.err = OutcomeWithKind(args, args.buf.kind)[1]
        /\ result.err = "ValueError: invalid buffer kind"
              => args.buf # NoArray /\ args.buf.kind \notin TextKinds
        /\ result.err = "ValueError: invalid kind"
              => args.buf = NoArray /\ args.kind \notin TextKinds
        /\ (args.buf # NoArray /\ args.buf.kind \notin TextKinds) => result.err # "none"

\* a call asking for text wrote its records into a buffer of bytes
C11_Witness ==
    /\ op \in Encoders
    /\ Mismatched(args)
    /\ args.kind = "U" /\ args.buf.kind = "S"
    /\ result.err = "none"
    /\ buffer # args.buf

\* C12: with a buffer supplied, `kind` is ignored: the output kind is the
\* buffer's kind whatever `kind` is, and the object returned is that buffer;
\* `kind` is validated only when no buffer is supplied.
C12_KindIgnoredWithBuffer ==
    op \in Encoders =>
        /\ args.buf # NoArray =>
              /\ \A k \in KindArgs :
                    OutcomeWithKind(args, k) = <<result.err, buffer, result.ret>>
              /\ result.err # "ValueError: invalid kind"
              /\ result.err = "none" =>
                    /\ result.ret = buffer
                    /\ result.ret.kind = args.buf.kind
                    /\ result.ret.shape = args.buf.shape
                    /\ result.ret.width = args.buf.width
        /\ (args.buf = NoArray /\ args.kind \notin TextKinds) => result.err # "none"

\* a call whose `kind` is neither text nor bytes wrote into the buffer it was
\* given and returned it
C12_Witness ==
    /\ op \in Encoders
    /\ args.buf # NoArray
    /\ args.kind = "x"
    /\ result.err = "none"
    /\ result.ret = buffer
    /\ buffer.kind = args.buf.kind


(***************************************************************************)
(* The layout of a date-time record.                                       *)
(***************************************************************************)
\* the date and the time sub-record of element j, each as the renderer of its
\* own gives it for the day and the seconds handed to it
DatePart(a, j) ==
    format_day(DayArray(<<>>, <<result.day[j]>>), WithoutT(a.order), a.ydigits, a.dash,
               NoDigits, a.proleptic, NoArray, "U").ret.data[1]
TimePart(a, j) ==
    format_sec([shape |-> <<>>, data |-> <<result.sec[j]>>], a.digits, a.colon, a.suffix,
               NoArray, "U").ret.data[1]

\* the record of the output that holds element j of the input
RecordOf(a, j) ==
    IF a.buf = NoArray THEN result.ret.data[j]
    ELSE With(Targets(a.buf.shape, BroadcastShape(a.day, a.sec)), LAMBDA T :
            result.ret.data[CHOOSE k \in T :
                               SourceOf(a.buf.shape, BroadcastShape(a.day, a.sec), k) = j
                               /\ \A i \in T : i < k =>
                                    SourceOf(a.buf.shape, BroadcastShape(a.day, a.sec), i) # j])

TMissing(order) == order[1] # "T" /\ order[Len(order)] # "T"

WidthDays == {DayOf(-1000, 1, 1), DayOf(0, 1, 1) - 1, 59, DayOf(9999, 12, 31),
              DayOf(10000, 1, 1)}
\* times of day: the start, a half second, the last second
WidthSecs == {0, 3661 * Tick + Tick \div 2, 86399 * Tick}

DayWidthCalls ==
    {DayArgs(FloatDays(<<Len(ds)>>, [j \in 1..Len(ds) |-> DayValue(ds[j], Tick \div 2)]),
             o, y, da, g, FALSE, "U") :
        ds \in SeqsOver(WidthDays), o \in {YMD, YD}, y \in {2, 4},
        da \in {<<>>, <<"-">>}, g \in {NoDigits, Digits(MaxDigits)}}

SecWidthCalls ==
    {SecArgs(Batch(ts), g, co, su, NoArray, "S") :
        ts \in SeqsOver(WidthSecs), g \in {NoDigits, Digits(0), Digits(MaxDigits)},
        co \in {<<>>, <<":">>}, su \in {<<>>, <<"Z">>}}

DaySecWidthCalls ==
    {DaySecArgs(Batch(ds), Scalar(t), o, y, <<"-">>, se, <<":">>, g, <<>>, "U") :
        ds \in SeqsOver(WidthDays), t \in {3661 * Tick + Tick \div 2},
        o \in {YMDT, <<"T", "Y", "D">>}, y \in {2, 4}, se \in {<<>>, <<"T">>},
        g \in {NoDigits, Digits(MaxDigits)}}

FormatDayBatch ==
    /\ Idle
    /\ \E a \in DayWidthCalls :
        \E r \in {format_day(a.day, a.order, a.ydigits, a.dash, a.ddigits, a.proleptic,
                            a.buf, a.kind)} :
           /\ op' = "format_day"
           /\ args' = a
           /\ result' = [err |-> r.err, ret |-> r.ret]
           /\ buffer' = r.buf
           /\ back' = NoBack
           /\ UNCHANGED tables

FormatSecBatch ==
    /\ Idle
    /\ \E a \in SecWidthCalls :
        \E r \in {format_sec(a.sec, a.digits, a.colon, a.suffix, a.buf, a.kind)} :
           /\ op' = "format_sec"
           /\ args' = a
           /\ result' = [err |-> r.err, ret |-> r.ret]
           /\ buffer' = r.buf
           /\ back' = NoBack
           /\ UNCHANGED tables

FormatDaySecBatch ==
    /\ Idle
    /\ \E a \in DaySecWidthCalls :
        \E r \in {format_day_sec(a.day, a.sec, a.order, a.ydigits, a.dash, a.sep, a.colon,
                                a.digits, a.suffix, a.proleptic, a.buf, a.kind)} :
           /\ op' = "format_day_sec"
           /\ args' = a
           /\ result' = [err |-> r.err, ret |-> r.ret, day |-> r.day, sec |-> r.sec]
           /\ buffer' = r.buf
           /\ back' = NoBack
           /\ UNCHANGED tables

NextWidth == FormatDayBatch \/ FormatSecBatch \/ FormatDaySecBatch \/ Finish

SpecWidth == Init /\ [][NextWidth]_vars

\* the record width the options of a date call for: the year, the month of
\* a three-field order, the day, a dash between fields, and the fraction
DateWidth(order, ydigits, dash, fraction) ==
    ydigits + (IF Len(order) = 3 THEN 4 ELSE 3) + (Len(order) - 1) * Len(dash) + fraction

\* the width of ".fff": nothing without digits, the point and the digits with
FractionWidth(digits) == IF digits.none \/ digits.n < 0 THEN 0 ELSE 1 + digits.n

TimeWidth(colon, digits, suffix) ==
    6 + 2 * Len(colon) + FractionWidth(digits) + Len(suffix)

OptionWidth(a) ==
    IF op = "format_day"
    THEN DateWidth(a.order, a.ydigits, a.dash,
                   IF a.day.isfloat THEN FractionWidth(a.ddigits) ELSE 0)
    ELSE IF op = "format_sec"
    THEN TimeWidth(a.colon, a.digits, a.suffix)
    ELSE DateWidth(WithoutT(a.order), a.ydigits, a.dash, 0) + Len(a.sep)
         + TimeWidth(a.colon, a.digits, a.suffix)

\* C14: for fixed options, the record width of a batch encoded without a
\* buffer is the width the options synthesize, and every record fills it,
\* whatever the size of the batch and the values in it, the first element's
\* included.
C14_AsStated ==
    (op \in Encoders /\ args.buf = NoArray /\ InputShape(args) # <<>>
     /\ result.err = "none")
    => /\ result.ret.width = OptionWidth(args)
       /\ \A j \in 1..Len(result.ret.data) :
             Len(RStrip(result.ret.data[j], NUL)) = OptionWidth(args)


(***************************************************************************)
(* Calls of format_sec without a buffer, and the value its text denotes.   *)
(***************************************************************************)
\* times of day within [0, 86400): at the start, at the end of a minute and
\* at the end of the day, with every sample fraction
DaySeconds == {b * Tick + f : b \in {0, 59, 3599, 86399}, f \in FracSamples}

SecCalls ==
    {SecArgs(Scalar(t), g, co, su, NoArray, "U") :
        t \in DaySeconds, g \in DigitOptions, co \in {<<>>, <<":">>}, su \in {<<>>, <<"Z">>}}
    \cup {SecArgs(Batch(ts), g, <<":">>, <<>>, NoArray, "S") :
             ts \in SeqsOver({59 * Tick + Tick \div 2 - 1, 59 * Tick + Tick \div 2,
                              3599 * Tick + Tick - 1}),
             g \in DigitOptions}

FormatSec ==
    /\ Idle
    /\ \E a \in SecCalls :
        \E r \in {format_sec(a.sec, a.digits, a.colon, a.suffix, a.buf, a.kind)} :
           /\ op' = "format_sec"
           /\ args' = a
           /\ result' = [err |-> r.err, ret |-> r.ret]
           /\ buffer' = r.buf
           /\ back' = NoBack
           /\ UNCHANGED tables

NextSec == FormatSec \/ Finish

SpecSec == Init /\ [][NextSec]_vars

\* the time, in ticks, that the text of record j denotes: hours, minutes and
\* seconds read at their places, and the fraction digits after the point
Denoted(a, j) ==
    LET rec == result.ret.data[j]
        lc == Len(a.colon)
        h == DigitsValue(Slice(rec, 0, 2))
        m == DigitsValue(Slice(rec, 2 + lc, 4 + lc))
        sc == DigitsValue(Slice(rec, 4 + 2 * lc, 6 + 2 * lc))
        n == IF a.digits.none \/ a.digits.n < 0 THEN 0 ELSE a.digits.n
        f == DigitsValue(Slice(rec, 7 + 2 * lc, 7 + 2 * lc + n))
    IN (3600 * h + 60 * m + sc) * Tick + f * (Tick \div Pow10(n))

\* t rounded half-up to a multiple of unit
HalfUp(t, unit) == ((t + unit \div 2) \div unit) * unit

\* C15: format_sec with digits None or negative renders the seconds rounded
\* to the nearest integer, not truncated: for every sec in [0, 86400) the
\* text denotes round(sec).
C15_AsStated ==
    (op = "format_sec" /\ (args.digits.none \/ args.digits.n < 0) /\ result.err = "none")
    => \A j \in 1..Len(args.sec.data) :
          Denoted(args, j) = HalfUp(args.sec.data[j], Tick)

\* C20: format_sec with digits >= 0 takes the hour, minute, second and the
\* fraction digits from the same rounded value: the text denotes sec rounded
\* half-up to `digits` decimals, the carry into the whole second included.
C20_AsStated ==
    (op = "format_sec" /\ ~args.digits.none /\ args.digits.n >= 0 /\ result.err = "none")
    => \A j \in 1..Len(args.sec.data) :
          Denoted(args, j) = HalfUp(args.sec.data[j], Tick \div Pow10(args.digits.n))


(***************************************************************************)
(* Two-digit years.                                                        *)
(***************************************************************************)
\* the day rendered for element j of a format_day call, and its calendar
\* fields
DayRendered(a, j) == a.day.data[j].i + DayAtPrecision(a, j) \div Tick
FieldsRendered(a, j) == DayYMD(DayRendered(a, j), Len(a.order), a.proleptic)

\* the characters of the year in a record: the first ones if the order starts
\* with the year, the last ones if not
YearText(a, rec) ==
    LET text == RStrip(rec, NUL)
    IN IF a.order[1] = "Y" THEN Slice(text, 0, a.ydigits)
       ELSE Slice(text, Len(text) - a.ydigits, Len(text))

\* the day the calendar gives the fields of element j with the year y
DayOfYear(a, j, y) ==
    LET c == FieldsRendered(a, j)
    IN IF Len(a.order) = 3 THEN day_from_ymd(y, c.m, c.d, TRUE, a.proleptic)
       ELSE day_from_yd(y, c.d, TRUE, a.proleptic)

\* C16: with ydigits=2 the scalar and the batch path render exactly the two
\* digits of (year mod 100), 2099 as "99"; decoding a record with a year field
\* of 2 characters hands the calendar the value of the field, in 0..99,
\* unchanged: no century is added.
C16_TwoDigitYears ==
    (op = "format_day" /\ args.ydigits = 2 /\ result.err = "none") =>
        \A j \in 1..Len(args.day.data) :
            /\ YearText(args, result.ret.data[j])
                  = ZeroPad(FieldsRendered(args, j).y % 100, 2)
            /\ Len(RStrip(result.ret.data[j], NUL))
                  = DateWidth(args.order, 2, args.dash,
                              IF HasDot(args) THEN 1 + args.ddigits.n ELSE 0)
            /\ (back.done /\ back.err = "none") =>
                  /\ DayOfYear(args, j, FieldsRendered(args, j).y % 100).err = "none"
                  /\ back.val[j].day
                        = DayOfYear(args, j, FieldsRendered(args, j).y % 100).day

\* a batch with a day of 2099 rendered as "99" and decoded as a day of the
\* year 99
C16_Witness ==
    /\ op = "format_day" /\ args.ydigits = 2 /\ args.day.shape # <<>>
    /\ back.done /\ back.err = "none"
    /\ \E j \in 1..Len(args.day.data) :
          /\ FieldsRendered(args, j).y = 2099
          /\ YearText(args, result.ret.data[j]) = <<"9", "9">>
          /\ ymd_from_day(back.val[j].day, args.proleptic)[1] = 99


(***************************************************************************)
(* Blank padding of the records decoded.                                   *)
(***************************************************************************)
\* the first record begins or ends with a blank
Padded(strings) ==
    LET first == FirstOf(strings)
    IN first # <<>> /\ (first[1] = " " \/ first[Len(first)] = " ")

\* every record holds blanks where the first record has its padding
EvenlyPadded(strings) ==
    LET first == FirstOf(strings)
        w == CountWhite(first)
    IN \A j \in 1..Len(strings.data) :
          \A k \in (1..w[1]) \cup ((Len(first) - w[2] + 1)..Len(first)) :
              strings.data[j][k] = " "

\* the batch with the padding of the first record cut off every record
Unpadded(strings) ==
    LET first == FirstOf(strings)
        w == CountWhite(first)
    IN [strings EXCEPT !.width = Len(first) - w[1] - w[2],
                       !.data = [j \in 1..Len(strings.data) |->
                                    Slice(strings.data[j], w[1], Len(first) - w[2])]]

\* the outcome of the decoder of the state on other strings
DecodedFrom(a, strings) ==
    IF op = "day_from_iso"
    THEN With(day_from_iso(strings, a.validate, a.syntax, a.strip, a.proleptic),
              LAMBDA r : <<r.err, r.val>>)
    ELSE With(sec_from_iso(strings, a.validate, a.leapsecs, a.strip, a.syntax),
              LAMBDA r : <<r.err, r.val>>)

\* C17: with strip=True, day_from_iso and sec_from_iso count the blanks
\* around the first record, classify what is left and shift every field by the
\* leading blanks, so that padded records decode as the unpadded ones do; with
\* strip=False a first record that begins or ends with a blank is rejected as
\* an unrecognized format.
C17_AsStated ==
    (op \in {"day_from_iso", "sec_from_iso"} /\ Padded(args.strings)) =>
        /\ (args.strip /\ EvenlyPadded(args.strings))
              => <<result.err, result.val>> = DecodedFrom(args, Unpadded(args.strings))
        /\ ~args.strip
              => /\ result.val = <<>>
                 /\ result.err \in UnrecognizedTime
                                   \cup {"ValueError: unrecognized ISO date format"}


(***************************************************************************)
(* Dates alone handed to day_sec_from_iso.                                 *)
(***************************************************************************)
\* C18: day_sec_from_iso applies the proleptic and the syntax option of the
\* caller to the date of every input, one without a date/time separator
\* included: for a date alone it returns the day day_from_iso returns under
\* the same options, and 0 seconds.
C18_AsStated ==
    (op = "day_sec_from_iso" /\ SepAt(FirstOf(args.strings)) = -1) =>
        LET d == day_from_iso(args.strings, args.validate, args.syntax, args.strip,
                              args.proleptic)
        IN /\ result.err = d.err
           /\ d.err = "none" =>
                 \A j \in 1..Len(d.val) :
                    /\ result.val[j].day = d.val[j].day
                    /\ result.val[j].num = d.val[j].num
                    /\ result.val[j].flen = d.val[j].flen
                    /\ result.val[j].sec.num = 0

(***************************************************************************)
(* Module-level state.  formatter.py keeps the digit tables DIGITS1/2/3    *)
(* and their byte forms (lines 13-20); iso_parser.py keeps the constant    *)
(* catalog ISO_DATE_FORMAT_INFO (lines 33-42).  The encoders only index    *)
(* the tables (formatter.py 194-217, 363-382), which yields copies.        *)
(***************************************************************************)
\* the call whose outcome the state holds, made again in this state
Replayed ==
    format_day(args.day, args.order, args.ydigits, args.dash, args.ddigits,
               args.proleptic, args.buf, args.kind)

DayWidthOf(a) == IF Len(a.order) = 2 THEN 3 ELSE 2
DotAt(rec) == Find(rec, ".", 0)
DayWritten(a, rec) == Slice(rec, DotAt(rec) - DayWidthOf(a), DotAt(rec))
FractionWritten(a, rec) == Slice(rec, DotAt(rec) + 1, DotAt(rec) + 1 + a.ddigits.n)
MonthWritten(a, rec) ==
    IF a.order = <<"D", "M", "Y">>
    THEN LET m0 == DotAt(rec) + 1 + a.ddigits.n + Len(a.dash) IN Slice(rec, m0, m0 + 2)
    ELSE LET m1 == DotAt(rec) - DayWidthOf(a) - Len(a.dash) IN Slice(rec, m1 - 2, m1)

\* C21: with a fractional day and ddigits >= 0 the day value is rounded
\* half-up to ddigits decimals, and the calendar fields and the fraction
\* digits both come from that rounded value: the month and day fields are
\* those of the day floor(rounded value), the digits are those of
\* rounded value - floor(rounded value), a value in [0, 1); a fraction that
\* rounds up to 1.0 gives the next day with every fraction digit zero.
C21_DayAndFractionFromRoundedValue ==
    (op = "format_day" /\ HasDot(args) /\ result.err = "none") =>
        \A j \in 1..Len(args.day.data) :
            LET rec == result.ret.data[j]
                c == DayYMD(args.day.data[j].i + DayAtPrecision(args, j) \div Tick,
                            Len(args.order), args.proleptic)
                part == DayAtPrecision(args, j) % Tick
            IN /\ DotAt(rec) >= 0
               /\ DayWritten(args, rec) = ZeroPad(c.d, DayWidthOf(args))
               /\ Len(args.order) = 3 => MonthWritten(args, rec) = ZeroPad(c.m, 2)
               /\ args.ddigits.n > 0 =>
                     FractionWritten(args, rec) = ZeroPad(part \div DayStep(args), args.ddigits.n)
               /\ DayAtPrecision(args, j) = Tick =>
                     \A i \in 1..Len(FractionWritten(args, rec)) :
                        FractionWritten(args, rec)[i] = "0"

\* a batch holding a day value below zero whose fraction rounds up to 1.0:
\* the record shows the first day of the next month, fraction 0
C21_Witness ==
    /\ op = "format_day" /\ HasDot(args) /\ result.err = "none"
    /\ args.day.shape # <<>> /\ args.ddigits.n > 0 /\ Len(args.order) = 3
    /\ \E j \in 1..Len(args.day.data) :
          /\ args.day.data[j].i < 0
          /\ DayAtPrecision(args, j) = Tick
          /\ DayWritten(args, result.ret.data[j]) = <<"0", "1">>
          /\ FractionWritten(args, result.ret.data[j]) = <<"0">>

(***************************************************************************)
(* The fraction digits in floating point.  NumPy's float64 is IEEE binary64 *)
(* with a significand of 53 bits, every operation rounded to nearest, ties  *)
(* to even.  The same format is modelled here with a significand of         *)
(* MantissaBits bits, on integers that count units of 2^-FixedBits: the     *)
(* digit counts at which rounding matters scale with the significand        *)
(* (10^FloatDigits just below 2^MantissaBits, as 10^15 is just below 2^53). *)
(***************************************************************************)
MantissaBits == 9
FixedBits == 18
FloatDigits == 2

RECURSIVE Pow2(_)
Pow2(n) == IF n <= 0 THEN 1 ELSE 2 * Pow2(n - 1)

\* floor(log2(x)) for x >= 1
RECURSIVE Log2(_)
Log2(x) == IF x < 2 THEN 0 ELSE 1 + Log2(x \div 2)

One == Pow2(FixedBits)

\* num/den units rounded to MantissaBits significant bits, ties to even
RoundRatio(num, den) ==
    IF num < den THEN 0
    ELSE LET e == Log2(num \div den)
             ulp == Pow2(e - MantissaBits + 1)
             n == num \div (den * ulp)
             r == num - n * den * ulp
             up == 2 * r > den * ulp \/ (2 * r = den * ulp /\ n % 2 = 1)
         IN (IF up THEN n + 1 ELSE n) * ulp

\* the float nearest to 0.1
FloatTenth == RoundRatio(One, 10)

\* (k + 0.1) / 10^d as the floating-point operations produce it
BiasedFraction(k, d) == RoundRatio(RoundRatio(k * One + FloatTenth, 1), Pow10(d))

\* the loop of formatter.py 212-217 and 377-382 on floats: frac *= 10,
\* f = frac // 1, frac -= f
RECURSIVE FloatFracDigits(_, _)
FloatFracDigits(frac, count) ==
    IF count <= 0 THEN <<>>
    ELSE LET t == RoundRatio(frac * 10, 1)
             f == t \div One
         IN <<f>> \o FloatFracDigits(RoundRatio(t - f * One, 1), count - 1)

\* round-with-bias on floats, ((sec * scale + 0.5) // 1 + 0.1) / scale
\* (formatter.py 66, 258, 464): [n, val], n the count of resolution units
\* and val the float the expression yields
FloatRoundBias(sec, d) ==
    LET scaled == RoundRatio(sec * Pow10(d), 1)
        n == RoundRatio(scaled + One \div 2, 1) \div One
    IN [n |-> n, val |-> RoundRatio(RoundRatio(n * One + FloatTenth, 1), Pow10(d))]

\* the times rounded: the multiples of 1/8 s below 8 s, every one of them a
\* float of MantissaBits bits
RoundCalls == {[sec |-> k * (One \div 8), d |-> d] : k \in 0..63, d \in 0..FloatDigits}

\* format_day_sec rounds a time, and format_sec rounds the result again at
\* the same resolution (formatter.py 461-464, 485-487, 255-262)
RoundTwice ==
    /\ Idle
    /\ \E a \in RoundCalls :
        \E first \in {FloatRoundBias(a.sec, a.d)} :
           /\ op' = "round_twice"
           /\ args' = a
           /\ result' = [first |-> first.n, again |-> FloatRoundBias(first.val, a.d).n]
           /\ UNCHANGED <<buffer, back, tables>>

DigitCalls == {[d |-> d, k |-> k] : d \in 0..FloatDigits, k \in 0..(Pow10(FloatDigits) - 1)}

\* the digits of one biased fraction are extracted
ExtractDigits ==
    /\ Idle
    /\ \E a \in {c \in DigitCalls : c.k < Pow10(c.d)} :
        /\ op' = "fraction_digits"
        /\ args' = a
        /\ result' = FloatFracDigits(BiasedFraction(a.k, a.d), a.d)
        /\ UNCHANGED <<buffer, back, tables>>

NextDigits == ExtractDigits \/ RoundTwice \/ Finish

SpecDigits == Init /\ [][NextDigits]_vars

\* the d decimal digits of k, most significant first
DecimalDigits(k, d) == [i \in 1..d |-> (k \div Pow10(d - i)) % 10]

\* C22 as stated: the extraction applied to (k + 0.1)/10^d with 0 <= k < 10^d
\* yields, for every d and k, exactly the d decimal digits of k, most
\* significant first, each of them in 0..9.
C22_AsStated ==
    op = "fraction_digits" =>
        /\ result = DecimalDigits(args.k, args.d)
        /\ \A i \in 1..Len(result) : result[i] \in 0..9

(***************************************************************************)
(* The fraction the decoders read.                                         *)
(***************************************************************************)
\* the span of the fraction digits in the records, from the first record:
\* 0-based [from, to), after its first "." and before a final "Z" and the
\* padding stripped
FractionSpan(a) ==
    LET first == FirstOf(a.strings)
        end == Len(first) - PaddingOf(a)[2]
        z == IF op = "sec_from_iso" /\ end >= 1 /\ first[end] = "Z" THEN 1 ELSE 0
    IN IF FirstDot(first) = 0 THEN <<end - z, end - z>> ELSE <<FirstDot(first), end - z>>

FractionLength(a) == FractionSpan(a)[2] - FractionSpan(a)[1]
FractionRead(a, rec) ==
    IF FractionLength(a) > 0
    THEN ParseInt(Slice(rec, FractionSpan(a)[1], FractionSpan(a)[2])).v
    ELSE 0

\* the integer fields of a time: how many, and the value of field i of a record
TimeFieldCount(a) ==
    LET ints == TimeIntegerPart(a)
    IN IF Count(ints, ":") > 0 THEN Count(ints, ":") + 1 ELSE Len(ints) \div 2

TimeFieldRead(a, rec, i) ==
    LET step == IF Count(TimeIntegerPart(a), ":") > 0 THEN 3 ELSE 2
        from == PaddingOf(a)[1] + (i - 1) * step
    IN IF i <= TimeFieldCount(a) THEN ParseInt(Slice(rec, from, from + 2)).v ELSE 0

\* seconds in one unit of the last field present
LastFieldSeconds(a) ==
    CASE TimeFieldCount(a) = 1 -> 3600
      [] TimeFieldCount(a) = 2 -> 60
      [] OTHER -> 1

\* the records cut before the decimal point
BeforeFraction(a) ==
    LET to == FirstDot(FirstOf(a.strings)) - 1
    IN [a.strings EXCEPT !.width = to,
                         !.data = [j \in 1..Len(a.strings.data) |->
                                      SubSeq(a.strings.data[j], 1, to)]]

\* C23: the fraction field of a time, scaled by 10^-(its digit count), is
\* added to the last integer field of the layout and to no other (seconds,
\* else minutes, else hours); the fraction field of a date, scaled likewise,
\* is added to the day number of the date before it.
C23_FractionOnLastField ==
    /\ (op = "sec_from_iso" /\ result.err = "none") =>
          \A j \in 1..Len(result.val) :
             LET rec == args.strings.data[j]
                 scale == Pow10(FractionLength(args))
                 whole == 3600 * TimeFieldRead(args, rec, 1)
                          + 60 * TimeFieldRead(args, rec, 2)
                          + TimeFieldRead(args, rec, 3)
             IN result.val[j].num * scale
                   = (whole * scale + FractionRead(args, rec) * LastFieldSeconds(args))
                     * result.val[j].den
    /\ (op = "day_from_iso" /\ result.err = "none"
        /\ FirstDot(FirstOf(args.strings)) # 0) =>
          LET whole == day_from_iso(BeforeFraction(args), args.validate, args.syntax,
                                    args.strip, args.proleptic)
          IN /\ whole.err = "none"
             /\ \A j \in 1..Len(result.val) :
                   /\ result.val[j].day = whole.val[j].day
                   /\ result.val[j].flen = FractionLength(args)
                   /\ result.val[j].num = FractionRead(args, args.strings.data[j])

\* 12:34.5Z decoded as 12 h 34.5 min, and 12.25 as 12.25 h
C23_Witness ==
    /\ op = "sec_from_iso" /\ result.err = "none"
    /\ FractionLength(args) > 0
    /\ \/ /\ TimeFieldCount(args) = 2
          /\ result.val[1].num = 45270 * result.val[1].den
       \/ /\ TimeFieldCount(args) = 1
          /\ result.val[1].num = 44100 * result.val[1].den

(***************************************************************************)
(* Calls of format_day and format_sec on a batch of one value, under every *)
(* combination of options, and the fields the options synthesize.          *)
(***************************************************************************)
Separators == {<<>>, <<"-">>, <<"-", "-">>}
Colons == {<<>>, <<":">>, <<":", ":">>}
Suffixes == {<<>>, <<"Z">>, <<"U", "T">>}

DayLayoutCalls ==
    {DayArgs(d, o, y, da, g, FALSE, "U") :
        d \in {FloatDays(<<1>>, <<DayValue(59, Tick \div 2)>>), IntDays(<<1>>, <<59>>)},
        o \in DateOrders, y \in {2, 4}, da \in Separators, g \in DigitOptions}

SecLayoutCalls ==
    {SecArgs(Batch(<<3661 * Tick + Tick \div 2>>), g, co, su, NoArray, "U") :
        g \in DigitOptions, co \in Colons, su \in Suffixes}

FormatDayOptions ==
    /\ Idle
    /\ \E a \in DayLayoutCalls :
        \E r \in {format_day(a.day, a.order, a.ydigits, a.dash, a.ddigits, a.proleptic,
                            a.buf, a.kind)} :
           /\ op' = "format_day"
           /\ args' = a
           /\ result' = [err |-> r.err, ret |-> r.ret]
           /\ buffer' = r.buf
           /\ back' = NoBack
           /\ UNCHANGED tables

FormatSecOptions ==
    /\ Idle
    /\ \E a \in SecLayoutCalls :
        \E r \in {format_sec(a.sec, a.digits, a.colon, a.suffix, a.buf, a.kind)} :
           /\ op' = "format_sec"
           /\ args' = a
           /\ result' = [err |-> r.err, ret |-> r.ret]
           /\ buffer' = r.buf
           /\ back' = NoBack
           /\ UNCHANGED tables

NextLayout == FormatDayOptions \/ FormatSecOptions \/ Finish

SpecLayout == Init /\ [][NextLayout]_vars

RECURSIVE Sum(_)
Sum(ns) == IF ns = <<>> THEN 0 ELSE Head(ns) + Sum(Tail(ns))

\* the fields the options of the call synthesize
FieldsOf(a) ==
    IF op = "format_day"
    THEN DayDtype(a.order, 1, 0, a.ydigits, Len(a.dash), HasDot(a), a.ddigits.n)
    ELSE SecDtype(Len(a.colon), ~a.digits.none /\ a.digits.n >= 0, a.digits.n,
                  Len(a.suffix))

\* every offset of a record of the given width lies in exactly one field, and
\* no field reaches outside the record
Tiled(fields, width) ==
    /\ \A k \in 1..Len(fields) :
          fields[k].len > 0 /\ fields[k].off >= 0 /\ fields[k].off + fields[k].len <= width
    /\ \A pos \in 0..(width - 1) :
          Cardinality({k \in 1..Len(fields) :
                          fields[k].off <= pos /\ pos < fields[k].off + fields[k].len}) = 1

Named(fields, name, n) ==
    {fields[k] : k \in {i \in 1..Len(fields) : fields[i].name = name /\ fields[i].n = n}}

\* C24: under every accepted combination of options the fields synthesized
\* by format_day and by format_sec occupy pairwise disjoint ranges that are
\* contiguous from offset 0 and whose widths sum to the record width; the day
\* field is 3 wide exactly when the order has two letters; the "." and the
\* fraction digits follow the day field immediately, wherever it stands.
C24_FieldsTileTheRecord ==
    (op \in {"format_day", "format_sec"} /\ args.buf = NoArray /\ result.err = "none"
     /\ InputShape(args) # <<>>) =>
        LET fields == FieldsOf(args)
            sum == Sum([k \in 1..Len(fields) |-> fields[k].len])
        IN /\ Tiled(fields, result.ret.width)
           /\ sum = result.ret.width
           /\ op = "format_day" => Named(fields, "d", 0) # {}
           /\ op = "format_day" =>
                 \A d \in Named(fields, "d", 0) :
                    /\ (d.len = 3) <=> (Len(args.order) = 2)
                    /\ d.len \in {2, 3}
                    /\ HasDot(args) <=> Named(fields, "dot", 0) # {}
                    /\ \A p \in Named(fields, "dot", 0) : p.off = d.off + d.len
                    /\ \A i \in 0..(args.ddigits.n - 1) :
                          HasDot(args) =>
                             /\ Named(fields, "f", i) # {}
                             /\ \A f \in Named(fields, "f", i) : f.off = d.off + d.len + 1 + i

\* day first, two-letter order, a separator of two characters and a fraction:
\* DDD.f--YYYY, 11 characters
C24_Witness ==
    /\ op = "format_day" /\ result.err = "none"
    /\ args.order = <<"D", "Y">> /\ Len(args.dash) = 2 /\ args.ydigits = 4
    /\ HasDot(args) /\ args.ddigits.n = 1
    /\ result.ret.width = 11
    /\ result.ret.data[1] = <<"0", "6", "0", ".", "5", "-", "-", "2", "0", "0", "0">>

(***************************************************************************)
(* The layout format_day writes and the layout day_from_iso reads.         *)
(***************************************************************************)
\* the fields format_day synthesizes for the date without its fraction
DateFields(order, ydigits, dash) == DayDtype(order, 1, 0, ydigits, Len(dash), FALSE, 0)

\* the catalog key of the records an option set writes: (width, dashes)
KeyWritten(order, ydigits, dash) ==
    <<FieldsEnd(DateFields(order, ydigits, dash), 0), (Len(order) - 1) * Len(dash)>>

OffsetsNamed(fields, name) ==
    LET at == {k \in 1..Len(fields) : fields[k].name = name}
    IN [i \in 1..Cardinality(at) |-> fields[Nth(at, i)].off]

\* the first record is of the form the options describe: of the width they
\* synthesize, with no "-" but the separators
OfTheFormWritten(a, ret) ==
    /\ Len(FirstOf(ret)) = FieldsEnd(FieldsOf(a), 0)
    /\ Count(FirstOf(ret), "-") = (Len(a.order) - 1) * Len(a.dash)

\* C25: for order YMD or YD, ydigits 2 or 4 and dash "-" or "", the width of
\* the date, the year width, the month offset, the day offset, the day width
\* and the separator offsets format_day synthesizes are those of the catalog
\* entry day_from_iso selects for the record written, and no other of the
\* eight option sets writes records that select this entry.
C25_EncoderAndCatalogAgree ==
    (op = "format_day" /\ IsoDayOptions(args) /\ args.ydigits \in {2, 4}
     /\ result.err = "none" /\ OfTheFormWritten(args, result.ret)) =>
        LET L == DayLayout(AsStrings(result.ret), FALSE)
            fields == DateFields(args.order, args.ydigits, args.dash)
            len(name) == Sum([k \in 1..Len(fields) |->
                                 IF fields[k].name = name THEN fields[k].len ELSE 0])
        IN /\ L.info.known
           /\ <<L.kints - L.w0, L.ndashes>> = KeyWritten(args.order, args.ydigits, args.dash)
           /\ L.info.y1 = len("y12") + len("y34")
           /\ L.info.y1 = args.ydigits
           /\ L.info.m0 = (IF Len(args.order) = 3 THEN OffsetsNamed(fields, "m")[1] ELSE 0)
           /\ L.info.d0 = OffsetsNamed(fields, "d")[1]
           /\ L.info.dlen = len("d")
           /\ L.info.dashes = OffsetsNamed(fields, "dash")
           /\ \A o \in {YMD, YD}, y \in {2, 4}, da \in {<<>>, <<"-">>} :
                 <<o, y, da>> # <<args.order, args.ydigits, args.dash>>
                 => KeyWritten(o, y, da) # <<L.kints - L.w0, L.ndashes>>

\* 2000060.5 written under YD, ydigits 4, no dash: the entry yyyyddd
C25_Witness ==
    /\ op = "format_day" /\ result.err = "none"
    /\ args.order = YD /\ args.ydigits = 4 /\ args.dash = <<>> /\ HasDot(args)
    /\ OfTheFormWritten(args, result.ret)
    /\ DayLayout(AsStrings(result.ret), FALSE).info = Info(4, 0, 4, 3, <<>>)

(***************************************************************************)
(* Calls of format_day and format_sec on one value without a buffer: the   *)
(* string-formatting path, and the table-gather path on the same value.    *)
(***************************************************************************)
SecPathCalls ==
    {SecArgs(Scalar(t), g, co, su, NoArray, "U") :
        t \in DaySeconds, g \in DigitOptions,
        co \in {<<>>, <<":">>, <<"%">>, <<"%", "%">>}, su \in {<<>>, <<"Z">>, <<"%">>}}

FormatDayScalar ==
    /\ Idle
    /\ \E a \in DayValueCalls \cup DayOptionCalls :
        \E r \in {format_day(a.day, a.order, a.ydigits, a.dash, a.ddigits, a.proleptic,
                            a.buf, a.kind)} :
           /\ op' = "format_day"
           /\ args' = a
           /\ result' = [err |-> r.err, ret |-> r.ret]
           /\ buffer' = r.buf
           /\ back' = NoBack
           /\ UNCHANGED tables

FormatSecScalar ==
    /\ Idle
    /\ \E a \in SecPathCalls :
        \E r \in {format_sec(a.sec, a.digits, a.colon, a.suffix, a.buf, a.kind)} :
           /\ op' = "format_sec"
           /\ args' = a
           /\ result' = [err |-> r.err, ret |-> r.ret]
           /\ buffer' = r.buf
           /\ back' = NoBack
           /\ UNCHANGED tables

NextPaths == FormatDayScalar \/ FormatSecScalar \/ Finish

SpecPaths == Init /\ [][NextPaths]_vars

\* the call made on the same value as a batch of one
Gathered(a) ==
    IF op = "format_day"
    THEN format_day(OneOf(a.day), a.order, a.ydigits, a.dash, a.ddigits, a.proleptic,
                    NoArray, a.kind)
    ELSE format_sec(OneOf(a.sec), a.digits, a.colon, a.suffix, NoArray, a.kind)

SamePaths(a) ==
    /\ result.err = Gathered(a).err
    /\ result.err = "none" => result.ret.data[1] = RStrip(Gathered(a).ret.data[1], NUL)

\* C26 as stated: for every value of a calendar year in 0..9999, every sec in
\* [0, 86400) and every option set, the string the scalar path returns is,
\* character for character, the record the table-gather path writes for the
\* same value.
C26_AsStated ==
    /\ (op = "format_day" /\ args.day.shape = <<>> /\ YearRendered(args, 1) \in 0..9999)
          => SamePaths(args)
    /\ (op = "format_sec" /\ args.sec.shape = <<>>) => SamePaths(args)

(***************************************************************************)
(* Rounding twice.                                                         *)
(***************************************************************************)
\* C27 as stated: format_sec rounding again, at the same resolution, the
\* value format_day_sec has rounded yields the same count n of resolution
\* units.
C27_AsStated ==
    op = "round_twice" => result.again = result.first

(***************************************************************************)
(* The length of the day in day_sec_from_iso.                              *)
(***************************************************************************)
\* the records before and after the separator of the first record
PartOf(strings, from, to) ==
    TextArray(strings.kind, strings.shape, to - from,
              [j \in 1..Len(strings.data) |-> Slice(strings.data[j], from, to)])
DateOf(a) == PartOf(a.strings, 0, SepAt(FirstOf(a.strings)))
TimeOf(a) == PartOf(a.strings, SepAt(FirstOf(a.strings)) + 1, Len(FirstOf(a.strings)))

DayDecoded(a) == day_from_iso(DateOf(a), a.validate, a.syntax, a.strip, a.proleptic)
SecDecoded(a) == sec_from_iso(TimeOf(a), a.validate, TRUE, a.strip, a.syntax)

\* some record's time is not within its day
PastTheDay(a) ==
    \E j \in 1..Len(a.strings.data) :
        SecDecoded(a).val[j].num
           >= seconds_on_day(DayDecoded(a).val[j].day) * SecDecoded(a).val[j].den

\* the separator check, which precedes the check of the range, fails
SeparatorDiffers(a) ==
    LET at == SepAt(FirstOf(a.strings)) + 1
    IN a.syntax /\ \E j \in 1..Len(a.strings.data) :
                      a.strings.data[j][at] # a.strings.data[1][at]

\* C28: when the date and the time of every record decode, day_sec_from_iso
\* with validate=True fails the whole call if the seconds of any record are
\* greater than or equal to seconds_on_day of that record's day, with the
\* out-of-range error unless the separator check has failed first, and
\* accepts the call otherwise: 23:59:60 passes only on a day of more than
\* 86400 seconds.  With validate=False the pairs are returned as decoded.
C28_SecondsWithinTheDay ==
    (/\ op = "day_sec_from_iso"
     /\ SepAt(FirstOf(args.strings)) # -1
     /\ args.strings.width = Len(FirstOf(args.strings))
     /\ DayDecoded(args).err = "none" /\ SecDecoded(args).err = "none") =>
        /\ (args.validate /\ PastTheDay(args)) =>
              /\ result.err # "none"
              /\ result.val = <<>>
              /\ ~SeparatorDiffers(args)
                    => result.err = "ValueError: seconds value is outside allowed range"
        /\ (~SeparatorDiffers(args) /\ ~(args.validate /\ PastTheDay(args))) =>
              /\ result.err = "none"
              /\ \A j \in 1..Len(result.val) :
                    /\ result.val[j].day = DayDecoded(args).val[j].day
                    /\ result.val[j].sec = SecDecoded(args).val[j]

\* a batch whose first record is 23:59:60 on a day that has a leap second
\* and whose second record is the same time on a day that has none
C28_Witness ==
    /\ op = "day_sec_from_iso" /\ args.validate
    /\ Len(args.strings.data) = 2
    /\ DayDecoded(args).err = "none" /\ SecDecoded(args).err = "none"
    /\ SecDecoded(args).val[1].num = 86400 * SecDecoded(args).val[1].den
    /\ seconds_on_day(DayDecoded(args).val[1].day) = 86401
    /\ seconds_on_day(DayDecoded(args).val[2].day) = 86400
    /\ result.err = "ValueError: seconds value is outside allowed range"

(***************************************************************************)
(* The objects the caller passes to format_day_sec.                        *)
(*                                                                         *)
(* A Python number cannot be written to; an ndarray can.  Each name of the *)
(* function is followed to the memory it is bound to: "caller", the array  *)
(* that was passed, or "call", memory made during the call.                *)
(***************************************************************************)
Forms == {"number", "ndarray"}

\* day = _int(day), sec = _number(sec) (formatter.py 439-440; julian.utils):
\* a number gives a new number; an array comes back as passed when it needs
\* no conversion (kept) and as a converted array otherwise
IntObject(form, kept) == IF form = "ndarray" /\ kept THEN "caller" ELSE "call"

\* np.broadcast_arrays (formatter.py 441): an array of the broadcast shape is
\* returned as it is, any other as a view of the same memory
BroadcastObject(owner) == owner

\* the memory the name sec is bound to after the rounding (formatter.py 463):
\* the value of an expression
RoundedObject(owner) == "call"

\* the memory the adjustment writes (formatter.py 467-476): the copies made
\* for a batch, the object the name is bound to otherwise
AdjustedObject(owner, shape) == IF shape # <<>> THEN "call" ELSE owner

\* the content of the array passed after the call: as written by the
\* adjustment if it was the memory adjusted, as passed otherwise
ArrayAfter(passed, owner, adjusted) ==
    IF owner = "caller" THEN [passed EXCEPT !.data = adjusted] ELSE passed

\* whether the call got as far as the adjustment (formatter.py 436-459)
ReachesAdjustment(a) ==
    /\ a.order[1] = "T" \/ a.order[Len(a.order)] = "T"
    /\ KindCheck(a.buf, a.kind) = "none"
    /\ a.buf = NoArray \/ BufferCheck(a.buf, BroadcastShape(a.day, a.sec)) = "none"

\* the caller's day and sec arrays after format_day_sec
CallersAfter(a, r, kept) ==
    LET shape == BroadcastShape(a.day, a.sec)
        day_owner == AdjustedObject(BroadcastObject(IntObject("ndarray", kept.day)), shape)
        sec_owner == AdjustedObject(RoundedObject(BroadcastObject(
                                        IntObject("ndarray", kept.sec))), shape)
    IN IF ReachesAdjustment(a)
       THEN [day |-> ArrayAfter(a.day, day_owner, r.day),
             sec |-> ArrayAfter(a.sec, sec_owner, r.sec)]
       ELSE [day |-> a.day, sec |-> a.sec]

OwnedCalls ==
    DaySecValueCalls
    \cup {a \in DaySecBatchCalls : a.day.shape = <<>> \/ a.day.shape = a.sec.shape}

\* format_day_sec on arrays of the caller's, zero-dimensional ones and
\* batches, with either behaviour of the conversions
FormatDaySecArrays ==
    /\ Idle
    /\ \E a \in OwnedCalls, kd \in BOOLEAN, ks \in BOOLEAN :
        \E r \in {format_day_sec(a.day, a.sec, a.order, a.ydigits, a.dash, a.sep, a.colon,
                                a.digits, a.suffix, a.proleptic, a.buf, a.kind)} :
           /\ op' = "format_day_sec_arrays"
           /\ args' = [call |-> a, kept |-> [day |-> kd, sec |-> ks]]
           /\ result' = [err |-> r.err, ret |-> r.ret, day |-> r.day, sec |-> r.sec,
                         after |-> CallersAfter(a, r, [day |-> kd, sec |-> ks])]
           /\ buffer' = r.buf
           /\ back' = NoBack
           /\ UNCHANGED tables

NextArrays == FormatDaySecArrays \/ Finish

SpecArrays == Init /\ [][NextArrays]_vars

FourDigitBatch == op = "format_day" /\ args.ydigits = 4 /\ args.day.shape # <<>>

\* record j shows the four decimal digits of the year of element j
ShowsActualYear(a, rec, j) ==
    /\ FieldsRendered(a, j).y \in 0..9999
    /\ YearText(a, rec) = ZeroPad(FieldsRendered(a, j).y, 4)

\* C30: on the batch path of format_day with ydigits=4, every record written
\* shows the four decimal digits of that element's calendar year or the call
\* raises an error; for a year below 0 or above 9999 the call never silently
\* writes the digits of a different year.
C30_AsStated ==
    (FourDigitBatch /\ result.err = "none") =>
        \A j \in 1..Len(args.day.data) : ShowsActualYear(args, result.ret.data[j], j)

====
